---- MODULE Spec2Model ----
(***************************************************************************)
(* Document state machine of tiger (src/src/state/document.rs) and the tab *)
(* routing of AppState (src/src/state/app.rs).                             *)
(*                                                                         *)
(* A Document is a record; every method of Document is an operator from a  *)
(* document (and the command's payload) to a result [ok, err, d], where d  *)
(* is the document the method was mutating when it returned.  On Err the   *)
(* document d is whatever the method had written before the `?` fired, as  *)
(* in the Rust code.                                                       *)
(*                                                                         *)
(* history_index is 0-based as in the code; TLA+ sequences are 1-based, so *)
(* history[history_index] of the code is history[history_index + 1] here.  *)
(***************************************************************************)
EXTENDS Integers, Sequences, FiniteSets, TLC

VARIABLES
    doc,     \* the Document under edit
    last,    \* the latest step of the caller: what was issued and its outcome
    driver,  \* what the caller remembers of earlier steps (SpecCap, SpecView)
    app      \* AppState: tabs and current_tab

vars == <<doc, last, driver, app>>

-----------------------------------------------------------------------------
(* Bounds of the model *)

\* highest next_version a document reaches in Spec, SpecView and SpecApp
MaxVersion == 1
\* content-changing commands the caller of SpecCap issues
MaxCmds == 150
\* the coordinates hitboxes take on each axis
Coords == {0, 1, 2}

\* frame paths, hitbox names
Paths == {"f1", "f2"}
HitboxNames == {"h1"}
\* cursor deltas of a hitbox drag, in screen pixels
MouseDeltas == {<<2, 0>>, <<-2, 0>>}
\* directions of NudgeSelection
NudgeDirections == {<<1, 0>>}

-----------------------------------------------------------------------------
(* Small helpers *)

Min(a, b) == IF a < b THEN a ELSE b
Max(a, b) == IF a > b THEN a ELSE b
Abs(a) == IF a < 0 THEN -a ELSE a

\* f with key k removed / set
Without(f, k) == [x \in (DOMAIN f) \ {k} |-> f[x]]
With(f, k, v) == [x \in (DOMAIN f) \cup {k} |-> IF x = k THEN v ELSE f[x]]

Ok(d) == [ok |-> TRUE, err |-> "", d |-> d]
Err(e, d) == [ok |-> FALSE, err |-> e, d |-> d]

-----------------------------------------------------------------------------
(* Sheet: frames with hitboxes (the sheet module is outside src/) *)

NewHitbox == [position |-> <<0, 0>>, size |-> <<0, 0>>]
NewFrame == [hitboxes |-> <<>>]
EmptySheet == [frames |-> <<>>, animations |-> <<>>]

has_frame(sheet, path) == path \in DOMAIN sheet.frames

\* Sheet::add_frame: a path already in the sheet is left alone
add_frame(sheet, path) ==
    IF has_frame(sheet, path) THEN sheet
    ELSE [sheet EXCEPT !.frames = With(sheet.frames, path, NewFrame)]

delete_frame(sheet, path) ==
    IF has_frame(sheet, path)
    THEN [sheet EXCEPT !.frames = Without(sheet.frames, path)]
    ELSE sheet

has_hitbox(sheet, path, name) ==
    has_frame(sheet, path) /\ name \in DOMAIN sheet.frames[path].hitboxes

\* Frame::add_hitbox: the new hitbox gets a name no hitbox of the frame has
HitboxNameOrder == <<"h1">>
FreshHitboxName(sheet, path) ==
    LET free == {i \in DOMAIN HitboxNameOrder :
                    HitboxNameOrder[i] \notin DOMAIN sheet.frames[path].hitboxes}
    IN HitboxNameOrder[CHOOSE i \in free : \A j \in free : i <= j]

add_hitbox(sheet, path, name) ==
    [sheet EXCEPT !.frames[path].hitboxes = With(@, name, NewHitbox)]

delete_hitbox(sheet, path, name) ==
    IF has_hitbox(sheet, path, name)
    THEN [sheet EXCEPT !.frames[path].hitboxes = Without(@, name)]
    ELSE sheet

set_position(sheet, path, name, pos) ==
    [sheet EXCEPT !.frames[path].hitboxes[name].position = pos]


\* Animations: name -> [is_looping, frames], frames a sequence of keyframes
\* [frame, duration, offset]; keyframe index i of the code is frames[i + 1]
has_animation(sheet, name) == name \in DOMAIN sheet.animations

get_num_frames(animation) == Len(animation.frames)

RECURSIVE SumDurations(_, _)
SumDurations(frames, n) ==
    IF n = 0 THEN 0 ELSE SumDurations(frames, n - 1) + frames[n].duration

\* Animation::get_duration: None for an animation without keyframes
NoDuration == -1
get_duration(animation) ==
    IF Len(animation.frames) = 0 THEN NoDuration
    ELSE SumDurations(animation.frames, Len(animation.frames))

\* Animation::get_frame_times: start time of keyframe index i (0-based)
frame_start_time(animation, i) == SumDurations(animation.frames, i)

\* Animation::get_frame_at: the index of the keyframe whose time span holds
\* the time, the last keyframe for a time past the end, NoFrame for an
\* animation without duration
NoFrame == -1
get_frame_at(animation, time) ==
    LET duration == get_duration(animation)
        holding == {i \in 0..(Len(animation.frames) - 1) :
                        /\ frame_start_time(animation, i) <= time
                        /\ time < frame_start_time(animation, i + 1)}
    IN IF duration = NoDuration \/ duration = 0 THEN NoFrame
       ELSE IF holding = {} THEN Len(animation.frames) - 1
       ELSE CHOOSE i \in holding : \A j \in holding : i <= j

\* the elements of frames at the 1-based positions of keep, in order
FramesAt(frames, keep) ==
    [k \in 1..Cardinality(keep) |->
        frames[CHOOSE p \in keep : Cardinality({q \in keep : q < p}) = k - 1]]

\* Sheet::rename_animation
rename_animation(sheet, old_name, new_name) ==
    IF ~has_animation(sheet, old_name) THEN Err("AnimationNotInDocument", sheet)
    ELSE IF has_animation(sheet, new_name) THEN Err("AnimationAlreadyExists", sheet)
    ELSE Ok([sheet EXCEPT !.animations =
                With(Without(@, old_name), new_name, sheet.animations[old_name])])

\* Frame::rename_hitbox
rename_hitbox(sheet, path, old_name, new_name) ==
    IF ~has_hitbox(sheet, path, old_name) THEN Err("InvalidHitboxName", sheet)
    ELSE IF has_hitbox(sheet, path, new_name) THEN Err("HitboxAlreadyExists", sheet)
    ELSE Ok([sheet EXCEPT !.frames[path].hitboxes =
                With(Without(@, old_name), new_name,
                     sheet.frames[path].hitboxes[old_name])])

-----------------------------------------------------------------------------
(* Selection, View, Transient (the state module is outside src/) *)

NoSelection == [kind |-> "None", names |-> {}, indexes |-> {},
                last_name |-> "", last_index |-> 0]

\* MultiSelection<PathBuf> / MultiSelection<String> wrapped in its Selection variant
NameSelection(kind, names, last_touched) ==
    [kind |-> kind, names |-> names, indexes |-> {},
     last_name |-> last_touched, last_index |-> 0]

\* MultiSelection<usize> wrapped in Selection::Keyframe
KeyframeSelection(indexes, last_touched) ==
    [kind |-> "Keyframe", names |-> {}, indexes |-> indexes,
     last_name |-> "", last_index |-> last_touched]

NoItem == [kind |-> "None", name |-> ""]
FrameItem(path) == [kind |-> "Frame", name |-> path]
AnimationItem(name) == [kind |-> "Animation", name |-> name]

MinZoomLevel == 1
MaxZoomLevel == 2

DefaultView ==
    [selection |-> NoSelection,
     workbench_item |-> NoItem,
     workbench_offset |-> <<0, 0>>,
     workbench_zoom_level |-> 1,
     timeline_clock |-> 0]

\* View::workbench_zoom_in / workbench_zoom_out: the level doubles / halves
\* within its range
workbench_zoom_in(view) ==
    [view EXCEPT !.workbench_zoom_level = Min(@ * 2, MaxZoomLevel)]
workbench_zoom_out(view) ==
    [view EXCEPT !.workbench_zoom_level = Max(@ \div 2, MinZoomLevel)]
get_workbench_zoom_factor(view) == view.workbench_zoom_level

NoTransient == [kind |-> "None", initial_offset |-> <<>>]
HitboxPosition(initial_offset) ==
    [kind |-> "HitboxPosition", initial_offset |-> initial_offset]
ContentFramesDrag == [kind |-> "ContentFramesDrag", initial_offset |-> <<>>]
TimelineScrub == [kind |-> "TimelineScrub", initial_offset |-> <<>>]
Rename(new_name) ==
    [kind |-> "Rename", initial_offset |-> <<>>, new_name |-> new_name]
\* initial_duration: the duration of each selected keyframe, by index
KeyframeDuration(initial_duration, frame_being_dragged, reference_clock) ==
    [kind |-> "KeyframeDuration", initial_offset |-> <<>>,
     initial_duration |-> initial_duration,
     frame_being_dragged |-> frame_being_dragged,
     reference_clock |-> reference_clock]

\* initial_state: position and size of each selected hitbox, by name
HitboxSize(axis, initial_state) ==
    [kind |-> "HitboxSize", initial_offset |-> <<>>,
     axis |-> axis, initial_state |-> initial_state]
\* initial_offset: the offset of each selected keyframe, by index
KeyframePosition(initial_offset) ==
    [kind |-> "KeyframePosition", initial_offset |-> initial_offset]

\* Transient::is_transient_command: the Begin*/Update* gesture commands and
\* UpdateRenameSelection keep the transient state
TransientCommands ==
    {"BeginFramesDrag", "BeginKeyframeDurationDrag", "UpdateKeyframeDurationDrag",
     "BeginKeyframeDrag", "BeginKeyframeOffsetDrag", "UpdateKeyframeOffsetDrag",
     "BeginHitboxScale", "UpdateHitboxScale", "BeginHitboxDrag", "UpdateHitboxDrag",
     "BeginScrub", "UpdateScrub", "BeginRenameSelection", "UpdateRenameSelection"}
is_transient_command(command) == command.type \in TransientCommands

EndCommands ==
    {"EndFramesDrag", "EndKeyframeDurationDrag", "EndKeyframeDrag",
     "EndKeyframeOffsetDrag", "EndHitboxScale", "EndHitboxDrag", "EndScrub"}

-----------------------------------------------------------------------------
(* Document: construction, versions, history *)

MaxHistory == 100

\* export_settings_edit is <<>> for None and <<settings>> for Some(settings)
DefaultPersistent ==
    [export_settings_edit |-> <<>>, close_state |-> "None",
     timeline_is_playing |-> FALSE, disk_version |-> 0]

HistoryEntry(last_command, sheet, view, version) ==
    [last_command |-> last_command, sheet |-> sheet, view |-> view,
     version |-> version]

DefaultHistoryEntry == HistoryEntry("None", EmptySheet, DefaultView, 0)

\* Document::new
NewDocument(path) ==
    [source |-> path,
     sheet |-> DefaultHistoryEntry.sheet,
     view |-> DefaultHistoryEntry.view,
     transient |-> NoTransient,
     persistent |-> DefaultPersistent,
     next_version |-> DefaultHistoryEntry.version,
     history |-> <<DefaultHistoryEntry>>,
     history_index |-> 0]

\* Document::open, given the sheet read from disk
OpenDocument(path, sheet) ==
    LET document == NewDocument(path) IN
    [document EXCEPT
        !.sheet = sheet,
        !.history[1].sheet = sheet,
        !.persistent.disk_version = document.next_version]

\* history[history_index] of the code
CurrentEntry(d) == d.history[d.history_index + 1]

get_version(d) == CurrentEntry(d).version

is_saved(d) == d.persistent.disk_version = get_version(d)

RECURSIVE EvictOldest(_)
\* the while loop of push_undo_state
EvictOldest(d) ==
    IF Len(d.history) > MaxHistory
    THEN EvictOldest([d EXCEPT !.history = Tail(@),
                               !.history_index = @ - 1])
    ELSE d

\* push_undo_state leaving the cursor one past the pushed entry
push_undo_state_cursor_past_end(d, entry) ==
    LET truncated == SubSeq(d.history, 1, d.history_index + 1)
        pushed == Append(truncated, entry)
    IN [d EXCEPT !.history = pushed, !.history_index = Len(pushed)]

\* push_undo_state without the eviction loop
push_undo_state_unbounded(d, entry) ==
    LET truncated == SubSeq(d.history, 1, d.history_index + 1)
        pushed == Append(truncated, entry)
    IN [d EXCEPT !.history = pushed, !.history_index = Len(pushed) - 1]

push_undo_state(d, entry) ==
    LET truncated == SubSeq(d.history, 1, d.history_index + 1)
        pushed == Append(truncated, entry)
    IN EvictOldest([d EXCEPT !.history = pushed,
                             !.history_index = Len(pushed) - 1])

\* can_use_undo_system ignoring the gesture in progress
can_use_undo_system_always(d) == TRUE

can_use_undo_system(d) == d.transient.kind = "None"

\* record_command looking for sheet changes against the live sheet it replaces
\* instead of against the current history entry
record_command_against_live_sheet(self, command, new_document) ==
    LET copied == [self EXCEPT !.sheet = new_document.sheet,
                               !.view = new_document.view,
                               !.transient = new_document.transient,
                               !.persistent = new_document.persistent]
        has_sheet_changes == self.sheet /= new_document.sheet
        bumped == IF has_sheet_changes
                  THEN [copied EXCEPT !.next_version = @ + 1]
                  ELSE copied
        new_undo_state == HistoryEntry(command.type, new_document.sheet,
                                       new_document.view, bumped.next_version)
        merge == /\ bumped.history_index > 0
                 /\ bumped.history[bumped.history_index].sheet
                        = CurrentEntry(bumped).sheet
    IN IF ~can_use_undo_system(copied) THEN copied
       ELSE IF has_sheet_changes THEN push_undo_state(bumped, new_undo_state)
       ELSE IF CurrentEntry(bumped).view /= new_undo_state.view
            THEN IF merge
                 THEN [bumped EXCEPT !.history[bumped.history_index + 1].view
                                          = new_undo_state.view]
                 ELSE push_undo_state(bumped, new_undo_state)
       ELSE bumped

\* record_command pushing every view change, never merging
record_command_never_merges(self, command, new_document) ==
    LET copied == [self EXCEPT !.sheet = new_document.sheet,
                               !.view = new_document.view,
                               !.transient = new_document.transient,
                               !.persistent = new_document.persistent]
        has_sheet_changes == CurrentEntry(copied).sheet /= new_document.sheet
        bumped == IF has_sheet_changes
                  THEN [copied EXCEPT !.next_version = @ + 1]
                  ELSE copied
        new_undo_state == HistoryEntry(command.type, new_document.sheet,
                                       new_document.view, bumped.next_version)
    IN IF ~can_use_undo_system(copied) THEN copied
       ELSE IF has_sheet_changes THEN push_undo_state(bumped, new_undo_state)
       ELSE IF CurrentEntry(bumped).view /= new_undo_state.view
            THEN push_undo_state(bumped, new_undo_state)
       ELSE bumped

\* record_command pushing to history while a gesture is in progress
record_command_during_gesture(self, command, new_document) ==
    LET copied == [self EXCEPT !.sheet = new_document.sheet,
                               !.view = new_document.view,
                               !.transient = new_document.transient,
                               !.persistent = new_document.persistent]
        has_sheet_changes == CurrentEntry(copied).sheet /= new_document.sheet
        bumped == IF has_sheet_changes
                  THEN [copied EXCEPT !.next_version = @ + 1]
                  ELSE copied
        new_undo_state == HistoryEntry(command.type, new_document.sheet,
                                       new_document.view, bumped.next_version)
    IN IF has_sheet_changes THEN push_undo_state(bumped, new_undo_state)
       ELSE bumped

\* record_command pushing a content change after the redo tail instead of
\* truncating it
record_command_keeps_redo_tail(self, command, new_document) ==
    LET copied == [self EXCEPT !.sheet = new_document.sheet,
                               !.view = new_document.view,
                               !.transient = new_document.transient,
                               !.persistent = new_document.persistent]
        has_sheet_changes == CurrentEntry(copied).sheet /= new_document.sheet
        bumped == IF has_sheet_changes
                  THEN [copied EXCEPT !.next_version = @ + 1]
                  ELSE copied
        new_undo_state == HistoryEntry(command.type, new_document.sheet,
                                       new_document.view, bumped.next_version)
        merge == /\ bumped.history_index > 0
                 /\ bumped.history[bumped.history_index].sheet
                        = CurrentEntry(bumped).sheet
    IN IF ~can_use_undo_system(copied) THEN copied
       ELSE IF has_sheet_changes
            THEN [bumped EXCEPT !.history = Append(@, new_undo_state),
                                !.history_index = Len(bumped.history)]
       ELSE IF CurrentEntry(bumped).view /= new_undo_state.view
            THEN IF merge
                 THEN [bumped EXCEPT !.history[bumped.history_index + 1].view
                                          = new_undo_state.view]
                 ELSE push_undo_state(bumped, new_undo_state)
       ELSE bumped

\* record_command whose merge leaves the entry's view as it was
record_command_keeps_entry_view(self, command, new_document) ==
    LET copied == [self EXCEPT !.sheet = new_document.sheet,
                               !.view = new_document.view,
                               !.transient = new_document.transient,
                               !.persistent = new_document.persistent]
        has_sheet_changes == CurrentEntry(copied).sheet /= new_document.sheet
        bumped == IF has_sheet_changes
                  THEN [copied EXCEPT !.next_version = @ + 1]
                  ELSE copied
        new_undo_state == HistoryEntry(command.type, new_document.sheet,
                                       new_document.view, bumped.next_version)
        merge == /\ bumped.history_index > 0
                 /\ bumped.history[bumped.history_index].sheet
                        = CurrentEntry(bumped).sheet
    IN IF ~can_use_undo_system(copied) THEN copied
       ELSE IF has_sheet_changes THEN push_undo_state(bumped, new_undo_state)
       ELSE IF CurrentEntry(bumped).view /= new_undo_state.view
            THEN IF merge THEN bumped
                 ELSE push_undo_state(bumped, new_undo_state)
       ELSE bumped

\* Document::record_command: self takes the new document's live state, then
\* history is pushed or merged
record_command(self, command, new_document) ==
    LET copied == [self EXCEPT !.sheet = new_document.sheet,
                               !.view = new_document.view,
                               !.transient = new_document.transient,
                               !.persistent = new_document.persistent]
        has_sheet_changes == CurrentEntry(copied).sheet /= new_document.sheet
        bumped == IF has_sheet_changes
                  THEN [copied EXCEPT !.next_version = @ + 1]
                  ELSE copied
        new_undo_state == HistoryEntry(command.type, new_document.sheet,
                                       new_document.view, bumped.next_version)
        merge == /\ bumped.history_index > 0
                 /\ bumped.history[bumped.history_index].sheet
                        = CurrentEntry(bumped).sheet
    IN IF ~can_use_undo_system(copied) THEN copied
       ELSE IF has_sheet_changes THEN push_undo_state(bumped, new_undo_state)
       ELSE IF CurrentEntry(bumped).view /= new_undo_state.view
            THEN IF merge
                 THEN [bumped EXCEPT !.history[bumped.history_index + 1].view
                                          = new_undo_state.view]
                 ELSE push_undo_state(bumped, new_undo_state)
       ELSE bumped

\* undo without the gesture check
undo_during_gesture(d) ==
    IF d.history_index > 0
    THEN LET index == d.history_index - 1 IN
         Ok([d EXCEPT !.history_index = index,
                      !.sheet = d.history[index + 1].sheet,
                      !.view = d.history[index + 1].view,
                      !.persistent.timeline_is_playing = FALSE])
    ELSE Ok(d)

\* undo that leaves the playback flag alone
undo_keeps_playing(d) ==
    IF ~can_use_undo_system(d) THEN Err("UndoOperationNowAllowed", d)
    ELSE IF d.history_index > 0
    THEN LET index == d.history_index - 1 IN
         Ok([d EXCEPT !.history_index = index,
                      !.sheet = d.history[index + 1].sheet,
                      !.view = d.history[index + 1].view])
    ELSE Ok(d)

\* Document::undo
undo(d) ==
    IF ~can_use_undo_system(d) THEN Err("UndoOperationNowAllowed", d)
    ELSE IF d.history_index > 0
    THEN LET index == d.history_index - 1 IN
         Ok([d EXCEPT !.history_index = index,
                      !.sheet = d.history[index + 1].sheet,
                      !.view = d.history[index + 1].view,
                      !.persistent.timeline_is_playing = FALSE])
    ELSE Ok(d)

\* redo restoring the entry it leaves instead of the entry it moves to
redo_restores_old_entry(d) ==
    IF ~can_use_undo_system(d) THEN Err("UndoOperationNowAllowed", d)
    ELSE IF d.history_index < Len(d.history) - 1
    THEN LET index == d.history_index + 1 IN
         Ok([d EXCEPT !.history_index = index,
                      !.sheet = d.history[index].sheet,
                      !.view = d.history[index].view,
                      !.persistent.timeline_is_playing = FALSE])
    ELSE Ok(d)

\* Document::redo
redo(d) ==
    IF ~can_use_undo_system(d) THEN Err("UndoOperationNowAllowed", d)
    ELSE IF d.history_index < Len(d.history) - 1
    THEN LET index == d.history_index + 1 IN
         Ok([d EXCEPT !.history_index = index,
                      !.sheet = d.history[index + 1].sheet,
                      !.view = d.history[index + 1].view,
                      !.persistent.timeline_is_playing = FALSE])
    ELSE Ok(d)

\* advance_timeline without the wrap of a looping animation
advance_timeline_never_wraps(d, delta) ==
    IF ~d.persistent.timeline_is_playing THEN d
    ELSE LET ticked == [d EXCEPT !.view.timeline_clock = @ + delta]
             item == ticked.view.workbench_item
             clock_ms == ticked.view.timeline_clock
         IN IF item.kind = "Animation" /\ has_animation(ticked.sheet, item.name)
            THEN LET animation == ticked.sheet.animations[item.name]
                     duration == get_duration(animation)
                 IN IF duration /= NoDuration /\ duration > 0
                    THEN IF ~animation.is_looping /\ clock_ms >= duration
                         THEN [ticked EXCEPT !.persistent.timeline_is_playing = FALSE,
                                             !.view.timeline_clock = duration]
                         ELSE ticked
                    ELSE [ticked EXCEPT !.persistent.timeline_is_playing = FALSE,
                                        !.view.timeline_clock = 0]
            ELSE ticked

\* advance_timeline stopping at the end of the animation without moving the
\* clock back to the duration
advance_timeline_stops_past_end(d, delta) ==
    IF ~d.persistent.timeline_is_playing THEN d
    ELSE LET ticked == [d EXCEPT !.view.timeline_clock = @ + delta]
             item == ticked.view.workbench_item
             clock_ms == ticked.view.timeline_clock
         IN IF item.kind = "Animation" /\ has_animation(ticked.sheet, item.name)
            THEN LET animation == ticked.sheet.animations[item.name]
                     duration == get_duration(animation)
                 IN IF duration /= NoDuration /\ duration > 0
                    THEN IF animation.is_looping
                         THEN [ticked EXCEPT !.view.timeline_clock = clock_ms % duration]
                         ELSE IF clock_ms >= duration
                         THEN [ticked EXCEPT !.persistent.timeline_is_playing = FALSE]
                         ELSE ticked
                    ELSE [ticked EXCEPT !.persistent.timeline_is_playing = FALSE,
                                        !.view.timeline_clock = 0]
            ELSE ticked

\* Document::advance_timeline
advance_timeline(d, delta) ==
    IF ~d.persistent.timeline_is_playing THEN d
    ELSE LET ticked == [d EXCEPT !.view.timeline_clock = @ + delta]
             item == ticked.view.workbench_item
             clock_ms == ticked.view.timeline_clock
         IN IF item.kind = "Animation" /\ has_animation(ticked.sheet, item.name)
            THEN LET animation == ticked.sheet.animations[item.name]
                     duration == get_duration(animation)
                 IN IF duration /= NoDuration /\ duration > 0
                    THEN IF animation.is_looping
                         THEN [ticked EXCEPT !.view.timeline_clock = clock_ms % duration]
                         ELSE IF clock_ms >= duration
                         THEN [ticked EXCEPT !.persistent.timeline_is_playing = FALSE,
                                             !.view.timeline_clock = duration]
                         ELSE ticked
                    ELSE [ticked EXCEPT !.persistent.timeline_is_playing = FALSE,
                                        !.view.timeline_clock = 0]
            ELSE ticked

\* Document::begin_close
begin_close(d) ==
    IF d.persistent.close_state = "None"
    THEN [d EXCEPT !.persistent.close_state =
                        IF is_saved(d) THEN "Allowed" ELSE "Requested"]
    ELSE d

\* Document::try_close
try_close(d) ==
    IF d.persistent.close_state = "Saving" /\ is_saved(d)
    THEN [d EXCEPT !.persistent.close_state = "Allowed"]
    ELSE d

\* Document::tick
tick(d, delta) == try_close(advance_timeline(d, delta))

-----------------------------------------------------------------------------
(* Document: workbench and selection *)

\* the error of get_workbench_frame / get_workbench_frame_mut, "" when it is Ok
workbench_frame_error(d) ==
    IF d.view.workbench_item.kind = "Frame"
    THEN IF has_frame(d.sheet, d.view.workbench_item.name) THEN ""
         ELSE "FrameNotInDocument"
    ELSE "NotEditingAnyFrame"

\* the error of get_workbench_animation / get_workbench_animation_mut
workbench_animation_error(d) ==
    IF d.view.workbench_item.kind = "Animation"
    THEN IF has_animation(d.sheet, d.view.workbench_item.name) THEN ""
         ELSE "AnimationNotInDocument"
    ELSE "NotEditingAnyAnimation"

clear_selection(d) == [d EXCEPT !.view.selection = NoSelection]

\* paths: [names, last_name]
select_frames(d, paths) ==
    IF \E path \in paths.names : ~has_frame(d.sheet, path)
    THEN Err("FrameNotInDocument", d)
    ELSE IF paths.names = {} THEN Ok(clear_selection(d))
    ELSE Ok([d EXCEPT !.view.selection =
                NameSelection("Frame", paths.names, paths.last_name)])

\* a selection of animations that stores an empty request as it is
select_animations_stores_empty(d, names) ==
    IF \E name \in names.names : ~has_animation(d.sheet, name)
    THEN Err("AnimationNotInDocument", d)
    ELSE Ok([d EXCEPT !.view.selection =
                NameSelection("Animation", names.names, names.last_name)])

\* a selection of animations that keeps the names the sheet has and drops
\* the others
select_animations_keeps_known(d, names) ==
    LET known == {name \in names.names : has_animation(d.sheet, name)} IN
    IF known = {} THEN Ok(clear_selection(d))
    ELSE Ok([d EXCEPT !.view.selection =
                NameSelection("Animation", known, names.last_name)])

select_animations(d, names) ==
    IF \E name \in names.names : ~has_animation(d.sheet, name)
    THEN Err("AnimationNotInDocument", d)
    ELSE IF names.names = {} THEN Ok(clear_selection(d))
    ELSE Ok([d EXCEPT !.view.selection =
                NameSelection("Animation", names.names, names.last_name)])

select_hitboxes(d, names) ==
    IF d.view.workbench_item.kind /= "Frame" THEN Err("NotEditingAnyFrame", d)
    ELSE IF ~has_frame(d.sheet, d.view.workbench_item.name)
    THEN Err("FrameNotInDocument", d)
    ELSE IF \E name \in names.names :
                ~has_hitbox(d.sheet, d.view.workbench_item.name, name)
    THEN Err("InvalidHitboxName", d)
    ELSE IF names.names = {} THEN Ok(clear_selection(d))
    ELSE Ok([d EXCEPT !.view.selection =
                NameSelection("Hitbox", names.names, names.last_name)])

\* select_keyframes that always moves the clock to the start of the
\* last-touched keyframe
select_keyframes_always_moves_clock(d, frame_indexes) ==
    IF frame_indexes.indexes = {} THEN Ok(clear_selection(d))
    ELSE
    LET selected == [d EXCEPT !.view.selection =
                        KeyframeSelection(frame_indexes.indexes,
                                          frame_indexes.last_index)]
        keyframe_index == frame_indexes.last_index
    IN IF workbench_animation_error(selected) /= ""
       THEN Err(workbench_animation_error(selected), selected)
       ELSE
       LET animation == selected.sheet.animations[selected.view.workbench_item.name]
       IN IF keyframe_index >= get_num_frames(animation)
          THEN Err("InvalidKeyframeIndex", selected)
          ELSE Ok([selected EXCEPT !.view.timeline_clock =
                        frame_start_time(animation, keyframe_index)])

\* frame_indexes: [indexes, last_index]; the selection is written before the
\* workbench animation and the index are looked up
select_keyframes(d, frame_indexes) ==
    IF frame_indexes.indexes = {} THEN Ok(clear_selection(d))
    ELSE
    LET selected == [d EXCEPT !.view.selection =
                        KeyframeSelection(frame_indexes.indexes,
                                          frame_indexes.last_index)]
        keyframe_index == frame_indexes.last_index
    IN IF workbench_animation_error(selected) /= ""
       THEN Err(workbench_animation_error(selected), selected)
       ELSE
       LET animation == selected.sheet.animations[selected.view.workbench_item.name]
       IN IF keyframe_index >= get_num_frames(animation)
          THEN Err("InvalidKeyframeIndex", selected)
          ELSE
          LET frame_start == frame_start_time(animation, keyframe_index)
              duration == animation.frames[keyframe_index + 1].duration
              clock == selected.view.timeline_clock
              is_playhead_in_frame ==
                  /\ clock >= frame_start
                  /\ \/ clock < frame_start + duration
                     \/ keyframe_index = get_num_frames(animation) - 1
          IN IF ~selected.persistent.timeline_is_playing /\ ~is_playhead_in_frame
             THEN Ok([selected EXCEPT !.view.timeline_clock = frame_start])
             ELSE Ok(selected)

edit_frame(d, path) ==
    IF ~has_frame(d.sheet, path) THEN Err("FrameNotInDocument", d)
    ELSE Ok([d EXCEPT !.view.workbench_item = FrameItem(path),
                      !.view.workbench_offset = <<0, 0>>])

edit_animation(d, name) ==
    IF ~has_animation(d.sheet, name) THEN Err("AnimationNotInDocument", d)
    ELSE Ok([d EXCEPT !.view.workbench_item = AnimationItem(name),
                      !.view.workbench_offset = <<0, 0>>,
                      !.view.timeline_clock = 0,
                      !.persistent.timeline_is_playing = FALSE])

-----------------------------------------------------------------------------
(* Document: hitboxes *)

create_hitbox(d, mouse_position) ==
    IF workbench_frame_error(d) /= "" THEN Err(workbench_frame_error(d), d)
    ELSE
    LET frame_path == d.view.workbench_item.name
        hitbox_name == FreshHitboxName(d.sheet, frame_path)
        added == [d EXCEPT !.sheet =
                    set_position(add_hitbox(d.sheet, frame_path, hitbox_name),
                                 frame_path, hitbox_name, mouse_position)]
    IN select_hitboxes(added, [names |-> {hitbox_name}, last_name |-> hitbox_name])

begin_hitbox_drag(d) ==
    IF workbench_frame_error(d) /= "" THEN Err(workbench_frame_error(d), d)
    ELSE IF d.view.selection.kind /= "Hitbox" THEN Err("NoHitboxSelected", d)
    ELSE
    LET frame_path == d.view.workbench_item.name
        hitbox_names == d.view.selection.names
    IN IF \E name \in hitbox_names : ~has_hitbox(d.sheet, frame_path, name)
       THEN Err("InvalidHitboxName", d)
       ELSE Ok([d EXCEPT !.transient = HitboxPosition(
                    [name \in hitbox_names |->
                        d.sheet.frames[frame_path].hitboxes[name].position])])

\* the axis lock of update_hitbox_drag
LockAxis(mouse_delta, both_axis) ==
    IF both_axis THEN mouse_delta
    ELSE IF Abs(mouse_delta[1]) > Abs(mouse_delta[2])
    THEN <<mouse_delta[1], 0>>
    ELSE <<0, mouse_delta[2]>>

\* (old_offset + mouse_delta / zoom).floor(), old_offset being whole pixels
DraggedOffset(old_offset, mouse_delta, zoom) ==
    <<old_offset[1] + (mouse_delta[1] \div zoom),
      old_offset[2] + (mouse_delta[2] \div zoom)>>

\* On Err the hitboxes the loop reached before the failing one are already
\* moved; the loop order over the set is not fixed, d holds them all moved.
update_hitbox_drag(d, mouse_delta, both_axis) ==
    LET zoom == get_workbench_zoom_factor(d.view) IN
    IF workbench_frame_error(d) /= "" THEN Err(workbench_frame_error(d), d)
    ELSE IF d.view.selection.kind /= "Hitbox" THEN Err("NoHitboxSelected", d)
    ELSE IF d.transient.kind /= "HitboxPosition"
    THEN Err("NotAdjustingHitboxPosition", d)
    ELSE
    LET frame_path == d.view.workbench_item.name
        hitbox_names == d.view.selection.names
        initial_offset == d.transient.initial_offset
        movable == {name \in hitbox_names :
                        /\ name \in DOMAIN initial_offset
                        /\ has_hitbox(d.sheet, frame_path, name)}
        locked == LockAxis(mouse_delta, both_axis)
        hitboxes == d.sheet.frames[frame_path].hitboxes
        moved == [d EXCEPT !.sheet.frames[frame_path].hitboxes =
                    [name \in DOMAIN hitboxes |->
                        IF name \in movable
                        THEN [hitboxes[name] EXCEPT !.position =
                                DraggedOffset(initial_offset[name], locked, zoom)]
                        ELSE hitboxes[name]]]
    IN IF \E name \in hitbox_names : name \notin DOMAIN initial_offset
       THEN Err("MissingHitboxPositionData", moved)
       ELSE IF \E name \in hitbox_names : ~has_hitbox(d.sheet, frame_path, name)
       THEN Err("InvalidHitboxName", moved)
       ELSE Ok(moved)

\* f32::round of n / d for d > 0: halves go away from zero
RoundDiv(n, d) ==
    IF n >= 0 THEN (2 * n + d) \div (2 * d) ELSE -((d - 2 * n) \div (2 * d))

begin_hitbox_scale(d, axis) ==
    IF workbench_frame_error(d) /= "" THEN Err(workbench_frame_error(d), d)
    ELSE IF d.view.selection.kind /= "Hitbox" THEN Err("NoHitboxSelected", d)
    ELSE
    LET frame_path == d.view.workbench_item.name
        hitbox_names == d.view.selection.names
    IN IF \E name \in hitbox_names : ~has_hitbox(d.sheet, frame_path, name)
       THEN Err("InvalidHitboxName", d)
       ELSE Ok([d EXCEPT !.transient = HitboxSize(axis,
                    [name \in hitbox_names |->
                        d.sheet.frames[frame_path].hitboxes[name]])])

\* ResizeAxis::is_diagonal
IsDiagonal(axis) == axis \in {"NW", "NE", "SW", "SE"}

\* the mouse delta after the aspect-ratio branch for one hitbox
AspectDelta(mouse_delta, axis, initial, preserve_aspect_ratio) ==
    LET width == Max(initial.size[1], 1)
        height == Max(initial.size[2], 1)
        odd_axis_factor == IF axis \in {"NE", "SW"} THEN -1 ELSE 1
    IN IF preserve_aspect_ratio /\ IsDiagonal(axis)
       THEN IF Abs(mouse_delta[1]) > Abs(mouse_delta[2])
            THEN <<mouse_delta[1],
                   odd_axis_factor * RoundDiv(mouse_delta[1] * height, width)>>
            ELSE <<odd_axis_factor * RoundDiv(mouse_delta[2] * width, height),
                   mouse_delta[2]>>
       ELSE mouse_delta

\* Rect::from_points: the smallest rectangle holding both points
FromPoints(a, b) ==
    [position |-> <<Min(a[1], b[1]), Min(a[2], b[2])>>,
     size |-> <<Abs(a[1] - b[1]), Abs(a[2] - b[2])>>]

\* the corner or side of the initial rectangle that the axis leaves in place
FixedPoint(position, size, axis) ==
    CASE axis = "NW" -> <<position[1] + size[1], position[2] + size[2]>>
      [] axis = "NE" -> <<position[1], position[2] + size[2]>>
      [] axis = "SW" -> <<position[1] + size[1], position[2]>>
      [] axis = "SE" -> position
      [] axis = "N" -> <<position[1], position[2] + size[2]>>
      [] axis = "W" -> <<position[1] + size[1], position[2]>>
      [] axis = "S" -> position
      [] axis = "E" -> position

\* the opposite corner, moved by delta along the directions of the axis
DraggedPoint(position, size, axis, delta) ==
    CASE axis = "NW" -> <<position[1] + delta[1], position[2] + delta[2]>>
      [] axis = "NE" -> <<position[1] + size[1] + delta[1], position[2] + delta[2]>>
      [] axis = "SW" -> <<position[1] + delta[1], position[2] + size[2] + delta[2]>>
      [] axis = "SE" -> <<position[1] + size[1] + delta[1],
                          position[2] + size[2] + delta[2]>>
      [] axis = "N" -> <<position[1] + size[1], position[2] + delta[2]>>
      [] axis = "W" -> <<position[1] + delta[1], position[2] + size[2]>>
      [] axis = "S" -> <<position[1] + size[1], position[2] + size[2] + delta[2]>>
      [] axis = "E" -> <<position[1] + size[1] + delta[1], position[2] + size[2]>>

\* the match on the axis of update_hitbox_scale
ScaledHitbox(initial, axis, delta) ==
    FromPoints(FixedPoint(initial.position, initial.size, axis),
               DraggedPoint(initial.position, initial.size, axis, delta))

\* the loop of update_hitbox_scale over the names of order from position k
\* on; mouse_delta is the loop's variable, which the aspect-ratio branch
\* rewrites for the hitboxes that follow
RECURSIVE ScaleLoop(_, _, _, _, _, _)
ScaleLoop(hitboxes, order, k, mouse_delta, hitbox_size, arguments) ==
    IF k > Len(order) THEN hitboxes
    ELSE LET name == order[k]
             initial == hitbox_size.initial_state[name]
             adjusted == AspectDelta(mouse_delta, hitbox_size.axis, initial,
                                     arguments.preserve_aspect_ratio)
             delta == <<RoundDiv(adjusted[1], arguments.zoom),
                        RoundDiv(adjusted[2], arguments.zoom)>>
             scaled == ScaledHitbox(initial, hitbox_size.axis, delta)
         IN ScaleLoop([hitboxes EXCEPT ![name] = scaled], order, k + 1,
                      adjusted, hitbox_size, arguments)

\* the order in which a set of names is iterated: fixed for a given set
IterationOrder(names) ==
    CHOOSE order \in [1..Cardinality(names) -> names] :
        {order[k] : k \in DOMAIN order} = names

\* update_hitbox_scale that resizes what the previous update left
update_hitbox_scale_from_current(d, mouse_delta, preserve_aspect_ratio) ==
    IF workbench_frame_error(d) /= "" THEN Err(workbench_frame_error(d), d)
    ELSE IF d.view.selection.kind /= "Hitbox" THEN Err("NoHitboxSelected", d)
    ELSE IF d.transient.kind /= "HitboxSize" THEN Err("NotAdjustingHitboxSize", d)
    ELSE
    LET frame_path == d.view.workbench_item.name
        hitbox_names == d.view.selection.names
        hitboxes == d.sheet.frames[frame_path].hitboxes
        current == [d.transient EXCEPT !.initial_state =
                        [name \in DOMAIN @ |->
                            IF name \in DOMAIN hitboxes THEN hitboxes[name]
                            ELSE @[name]]]
    IN IF \E name \in hitbox_names : name \notin DOMAIN d.transient.initial_state
       THEN Err("MissingHitboxSizeData", d)
       ELSE IF \E name \in hitbox_names : ~has_hitbox(d.sheet, frame_path, name)
       THEN Err("InvalidHitboxName", d)
       ELSE Ok([d EXCEPT !.sheet.frames[frame_path].hitboxes =
                    ScaleLoop(hitboxes, IterationOrder(hitbox_names), 1,
                              mouse_delta, current,
                              [preserve_aspect_ratio |-> preserve_aspect_ratio,
                               zoom |-> get_workbench_zoom_factor(d.view)])])

\* Document::update_hitbox_scale.  A failing update is dropped with the
\* clone it ran on, so Err carries d as it was.
update_hitbox_scale(d, mouse_delta, preserve_aspect_ratio) ==
    IF workbench_frame_error(d) /= "" THEN Err(workbench_frame_error(d), d)
    ELSE IF d.view.selection.kind /= "Hitbox" THEN Err("NoHitboxSelected", d)
    ELSE IF d.transient.kind /= "HitboxSize" THEN Err("NotAdjustingHitboxSize", d)
    ELSE
    LET frame_path == d.view.workbench_item.name
        hitbox_names == d.view.selection.names
        hitboxes == d.sheet.frames[frame_path].hitboxes
    IN IF \E name \in hitbox_names : name \notin DOMAIN d.transient.initial_state
       THEN Err("MissingHitboxSizeData", d)
       ELSE IF \E name \in hitbox_names : ~has_hitbox(d.sheet, frame_path, name)
       THEN Err("InvalidHitboxName", d)
       ELSE Ok([d EXCEPT !.sheet.frames[frame_path].hitboxes =
                    ScaleLoop(hitboxes, IterationOrder(hitbox_names), 1,
                              mouse_delta, d.transient,
                              [preserve_aspect_ratio |-> preserve_aspect_ratio,
                               zoom |-> get_workbench_zoom_factor(d.view)])])

begin_keyframe_offset_drag(d) ==
    IF workbench_animation_error(d) /= "" THEN Err(workbench_animation_error(d), d)
    ELSE IF d.view.selection.kind /= "Keyframe" THEN Err("NoKeyframeSelected", d)
    ELSE
    LET animation == d.sheet.animations[d.view.workbench_item.name]
        frame_indexes == d.view.selection.indexes
    IN IF \E index \in frame_indexes : index >= get_num_frames(animation)
       THEN Err("InvalidKeyframeIndex", d)
       ELSE Ok([d EXCEPT !.transient = KeyframePosition(
                    [index \in frame_indexes |-> animation.frames[index + 1].offset])])

\* Document::update_keyframe_offset_drag.  A failing update is dropped with
\* the clone it ran on, so Err carries d as it was.
update_keyframe_offset_drag(d, mouse_delta, both_axis) ==
    LET zoom == get_workbench_zoom_factor(d.view) IN
    IF workbench_animation_error(d) /= "" THEN Err(workbench_animation_error(d), d)
    ELSE IF d.view.selection.kind /= "Keyframe" THEN Err("NoKeyframeSelected", d)
    ELSE IF d.transient.kind /= "KeyframePosition"
    THEN Err("NotAdjustingKeyframePosition", d)
    ELSE
    LET animation_name == d.view.workbench_item.name
        frame_indexes == d.view.selection.indexes
        initial_offset == d.transient.initial_offset
        frames == d.sheet.animations[animation_name].frames
        locked == LockAxis(mouse_delta, both_axis)
    IN IF \E index \in frame_indexes : index \notin DOMAIN initial_offset
       THEN Err("MissingKeyframePositionData", d)
       ELSE IF \E index \in frame_indexes : index >= Len(frames)
       THEN Err("InvalidKeyframeIndex", d)
       ELSE Ok([d EXCEPT !.sheet.animations[animation_name].frames =
                    [k \in DOMAIN frames |->
                        IF (k - 1) \in frame_indexes
                        THEN [frames[k] EXCEPT !.offset =
                                DraggedOffset(initial_offset[k - 1], locked, zoom)]
                        ELSE frames[k]]])

\* toggle_playback resuming a finished animation where it stopped
toggle_playback_keeps_clock(d) ==
    IF workbench_animation_error(d) /= "" THEN Err(workbench_animation_error(d), d)
    ELSE Ok([d EXCEPT !.persistent.timeline_is_playing = ~@])

toggle_playback(d) ==
    IF workbench_animation_error(d) /= "" THEN Err(workbench_animation_error(d), d)
    ELSE
    LET animation == d.sheet.animations[d.view.workbench_item.name]
        duration == get_duration(animation)
        new_timeline_clock ==
            IF /\ ~d.persistent.timeline_is_playing
               /\ duration /= NoDuration
               /\ duration > 0
               /\ ~animation.is_looping
               /\ d.view.timeline_clock >= duration
            THEN 0
            ELSE d.view.timeline_clock
    IN Ok([d EXCEPT !.persistent.timeline_is_playing = ~@,
                    !.view.timeline_clock = new_timeline_clock])

toggle_looping(d) ==
    IF workbench_animation_error(d) /= "" THEN Err(workbench_animation_error(d), d)
    ELSE Ok([d EXCEPT !.sheet.animations[d.view.workbench_item.name].is_looping = ~@])

\* MultiSelection::new(vec![index]) goes through select_keyframes, then the
\* clock takes the scrubbed time
update_timeline_scrub(d, new_time) ==
    IF workbench_animation_error(d) /= "" THEN Err(workbench_animation_error(d), d)
    ELSE
    LET animation == d.sheet.animations[d.view.workbench_item.name]
        index == get_frame_at(animation, new_time)
    IN IF index = NoFrame THEN Err("NoKeyframeForThisTime", d)
       ELSE LET selected == select_keyframes(d, [indexes |-> {index},
                                                 last_index |-> index])
            IN IF ~selected.ok THEN selected
               ELSE Ok([selected.d EXCEPT !.view.timeline_clock = new_time])

\* the start times of the keyframes, in keyframe order
FrameTimes(animation) ==
    [k \in 1..Len(animation.frames) |-> frame_start_time(animation, k - 1)]

\* snap_to_previous_frame taking a boundary at the clock for an earlier one
snap_to_previous_frame_not_strict(d) ==
    IF workbench_animation_error(d) /= "" THEN Err(workbench_animation_error(d), d)
    ELSE
    LET animation == d.sheet.animations[d.view.workbench_item.name]
        now == d.view.timeline_clock
        frame_times == FrameTimes(animation)
        found == {k \in DOMAIN frame_times : frame_times[k] <= now}
        clock == IF found /= {}
                 THEN frame_times[CHOOSE k \in found : \A j \in found : j <= k]
                 ELSE frame_times[1]
    IN IF get_num_frames(animation) = 0 THEN Ok(d)
       ELSE update_timeline_scrub(d, clock)

\* Document::snap_to_previous_frame: the last start time below the clock,
\* else the first start time
snap_to_previous_frame(d) ==
    IF workbench_animation_error(d) /= "" THEN Err(workbench_animation_error(d), d)
    ELSE
    LET animation == d.sheet.animations[d.view.workbench_item.name]
        now == d.view.timeline_clock
        frame_times == FrameTimes(animation)
        found == {k \in DOMAIN frame_times : frame_times[k] < now}
        clock == IF found /= {}
                 THEN frame_times[CHOOSE k \in found : \A j \in found : j <= k]
                 ELSE frame_times[1]
    IN IF get_num_frames(animation) = 0 THEN Ok(d)
       ELSE update_timeline_scrub(d, clock)

\* Document::snap_to_next_frame: the first start time above the clock, else
\* the last start time
snap_to_next_frame(d) ==
    IF workbench_animation_error(d) /= "" THEN Err(workbench_animation_error(d), d)
    ELSE
    LET animation == d.sheet.animations[d.view.workbench_item.name]
        now == d.view.timeline_clock
        frame_times == FrameTimes(animation)
        found == {k \in DOMAIN frame_times : frame_times[k] > now}
        clock == IF found /= {}
                 THEN frame_times[CHOOSE k \in found : \A j \in found : k <= j]
                 ELSE frame_times[Len(frame_times)]
    IN IF get_num_frames(animation) = 0 THEN Ok(d)
       ELSE update_timeline_scrub(d, clock)

\* large nudges move by 10, small ones by 1
NudgeAmplitude(large) == IF large THEN 10 ELSE 1

nudge_selection(d, direction, large) ==
    LET amplitude == NudgeAmplitude(large)
        offset == <<direction[1] * amplitude, direction[2] * amplitude>>
        selection == d.view.selection
    IN IF selection.kind = "Hitbox" /\ selection.names /= {}
       THEN IF workbench_frame_error(d) /= "" THEN Err(workbench_frame_error(d), d)
            ELSE
            LET frame_path == d.view.workbench_item.name
                hitboxes == d.sheet.frames[frame_path].hitboxes
                valid == {name \in selection.names :
                            has_hitbox(d.sheet, frame_path, name)}
                nudged == [d EXCEPT !.sheet.frames[frame_path].hitboxes =
                            [name \in DOMAIN hitboxes |->
                                IF name \in valid
                                THEN [hitboxes[name] EXCEPT !.position =
                                        <<@[1] + offset[1], @[2] + offset[2]>>]
                                ELSE hitboxes[name]]]
            IN IF valid /= selection.names THEN Err("InvalidHitboxName", nudged)
               ELSE Ok(nudged)
       ELSE IF selection.kind = "Keyframe" /\ selection.indexes /= {}
       THEN IF workbench_animation_error(d) /= ""
            THEN Err(workbench_animation_error(d), d)
            ELSE
            LET animation_name == d.view.workbench_item.name
                frames == d.sheet.animations[animation_name].frames
                valid == {index \in selection.indexes : index < Len(frames)}
                nudged == [d EXCEPT !.sheet.animations[animation_name].frames =
                            [i \in DOMAIN frames |->
                                IF (i - 1) \in valid
                                THEN [frames[i] EXCEPT !.offset =
                                        <<@[1] + offset[1], @[2] + offset[2]>>]
                                ELSE frames[i]]]
            IN IF valid /= selection.indexes THEN Err("InvalidKeyframeIndex", nudged)
               ELSE Ok(nudged)
       ELSE Ok(d)

delete_animation(sheet, name) ==
    IF has_animation(sheet, name)
    THEN [sheet EXCEPT !.animations = Without(sheet.animations, name)]
    ELSE sheet

\* the loops of delete_selection: one Sheet deletion per selected name, the
\* deletions of different names being independent of their order
RECURSIVE delete_animations(_, _)
delete_animations(sheet, names) ==
    IF names = {} THEN sheet
    ELSE LET name == CHOOSE x \in names : TRUE
         IN delete_animations(delete_animation(sheet, name), names \ {name})

RECURSIVE delete_frames(_, _)
delete_frames(sheet, paths) ==
    IF paths = {} THEN sheet
    ELSE LET path == CHOOSE x \in paths : TRUE
         IN delete_frames(delete_frame(sheet, path), paths \ {path})

RECURSIVE delete_hitboxes(_, _, _)
delete_hitboxes(sheet, frame_path, names) ==
    IF names = {} THEN sheet
    ELSE LET name == CHOOSE x \in names : TRUE
         IN delete_hitboxes(delete_hitbox(sheet, frame_path, name), frame_path,
                            names \ {name})

\* Sheet::delete_keyframe: an index past the end deletes nothing
delete_keyframe(sheet, animation_name, index) ==
    IF /\ has_animation(sheet, animation_name)
       /\ index < Len(sheet.animations[animation_name].frames)
    THEN LET frames == sheet.animations[animation_name].frames
         IN [sheet EXCEPT !.animations[animation_name].frames =
                SubSeq(frames, 1, index) \o SubSeq(frames, index + 2, Len(frames))]
    ELSE sheet

RECURSIVE delete_keyframes(_, _, _)
\* order: the selected indexes in the order the loop visits them
delete_keyframes(sheet, animation_name, order) ==
    IF order = <<>> THEN sheet
    ELSE delete_keyframes(delete_keyframe(sheet, animation_name, Head(order)),
                          animation_name, Tail(order))

\* order: the iteration order of the selected keyframe indexes (read only
\* for a Keyframe selection)
delete_selection(d, order) ==
    LET selection == d.view.selection
    IN IF selection.kind = "Animation"
       THEN Ok([d EXCEPT !.sheet = delete_animations(d.sheet, selection.names),
                         !.view.selection = NoSelection])
       ELSE IF selection.kind = "Frame"
       THEN Ok([d EXCEPT !.sheet = delete_frames(d.sheet, selection.names),
                         !.view.selection = NoSelection])
       ELSE IF selection.kind = "Hitbox"
       THEN IF workbench_frame_error(d) /= "" THEN Err(workbench_frame_error(d), d)
            ELSE Ok([d EXCEPT !.sheet = delete_hitboxes(d.sheet,
                                            d.view.workbench_item.name,
                                            selection.names),
                              !.view.selection = NoSelection])
       ELSE IF selection.kind = "Keyframe"
       THEN IF workbench_animation_error(d) /= ""
            THEN Err(workbench_animation_error(d), d)
            ELSE Ok([d EXCEPT !.sheet = delete_keyframes(d.sheet,
                                            d.view.workbench_item.name, order),
                              !.view.selection = NoSelection])
       ELSE Ok(clear_selection(d))

begin_keyframe_duration_drag(d, frame_being_dragged, reference_clock) ==
    IF d.view.workbench_item.kind /= "Animation" THEN Err("NotEditingAnyAnimation", d)
    ELSE IF d.view.selection.kind /= "Keyframe" THEN Err("NoKeyframeSelected", d)
    ELSE
    LET animation_name == d.view.workbench_item.name
        frame_indexes == d.view.selection.indexes
    IN IF frame_indexes /= {} /\ ~has_animation(d.sheet, animation_name)
       THEN Err("AnimationNotInDocument", d)
       ELSE IF \E index \in frame_indexes :
                    index >= get_num_frames(d.sheet.animations[animation_name])
       THEN Err("InvalidKeyframeIndex", d)
       ELSE Ok([d EXCEPT !.transient = KeyframeDuration(
                    [index \in frame_indexes |->
                        d.sheet.animations[animation_name].frames[index + 1].duration],
                    frame_being_dragged, reference_clock)])

\* The i32 division rounds toward zero.  The loop visits every selected
\* keyframe; when one of them fails, the first one in the loop's order
\* decides between InvalidKeyframeIndex and MissingKeyframeDurationData
\* (ascending order here), and the caller drops the clone either way.
update_keyframe_duration_drag(d, clock_at_cursor, minimum_duration) ==
    IF workbench_animation_error(d) /= "" THEN Err(workbench_animation_error(d), d)
    ELSE IF d.view.selection.kind /= "Keyframe" THEN Err("NoKeyframeSelected", d)
    ELSE IF d.transient.kind /= "KeyframeDuration"
    THEN Err("NotAdjustingKeyframeDuration", d)
    ELSE
    LET animation_name == d.view.workbench_item.name
        frame_indexes == d.view.selection
        keyframe_duration == d.transient
        frames == d.sheet.animations[animation_name].frames
        duration_delta_up_to_dragged_frame ==
            clock_at_cursor - keyframe_duration.reference_clock
        count == Max(Cardinality({i \in frame_indexes.indexes :
                                    i <= keyframe_duration.frame_being_dragged}), 1)
        duration_delta_per_frame ==
            IF duration_delta_up_to_dragged_frame >= 0
            THEN duration_delta_up_to_dragged_frame \div count
            ELSE -((-duration_delta_up_to_dragged_frame) \div count)
        failing == {i \in frame_indexes.indexes :
                        \/ i >= Len(frames)
                        \/ i \notin DOMAIN keyframe_duration.initial_duration}
        first_failing == CHOOSE i \in failing : \A j \in failing : i <= j
        resized == [d EXCEPT !.sheet.animations[animation_name].frames =
                      [k \in 1..Len(frames) |->
                          IF (k - 1) \in frame_indexes.indexes
                          THEN [frames[k] EXCEPT !.duration =
                                  Max(keyframe_duration.initial_duration[k - 1]
                                        + duration_delta_per_frame,
                                      minimum_duration)]
                          ELSE frames[k]]]
    IN IF failing /= {}
       THEN IF first_failing >= Len(frames) THEN Err("InvalidKeyframeIndex", d)
            ELSE Err("MissingKeyframeDurationData", d)
       ELSE IF frame_indexes.last_index >= Len(frames)
       THEN Err("InvalidKeyframeIndex", d)
       ELSE Ok([resized EXCEPT !.view.timeline_clock =
                    frame_start_time(resized.sheet.animations[animation_name],
                                     frame_indexes.last_index)])

\* a reordering that inserts at new_index itself, not counting the selected
\* keyframes that were taken out before it
reorder_keyframes_at_new_index(d, new_index) ==
    IF d.view.selection.kind /= "Keyframe" THEN Err("NoKeyframeSelected", d)
    ELSE IF workbench_animation_error(d) /= ""
    THEN Err(workbench_animation_error(d), d)
    ELSE
    LET frame_indexes == d.view.selection.indexes
        animation_name == d.view.workbench_item.name
        frames == d.sheet.animations[animation_name].frames
        taken == {i + 1 : i \in frame_indexes}
        affected_frames == FramesAt(frames, taken)
        remaining == FramesAt(frames, (1..Len(frames)) \ taken)
        last_selected == new_index + Cardinality(frame_indexes) - 1
        moved == [d EXCEPT
                    !.sheet.animations[animation_name].frames =
                        SubSeq(remaining, 1, new_index) \o affected_frames
                            \o SubSeq(remaining, new_index + 1, Len(remaining)),
                    !.view.selection =
                        KeyframeSelection(new_index..last_selected, last_selected)]
    IN IF \E i \in frame_indexes : i >= Len(frames)
       THEN Err("InvalidKeyframeIndex", d)
       ELSE IF new_index > Len(remaining) THEN Err("InvalidKeyframeIndex", d)
       ELSE Ok([moved EXCEPT !.view.timeline_clock =
                    frame_start_time(moved.sheet.animations[animation_name],
                                     new_index)])

\* the selected keyframes are taken out and put back, in their order, before
\* the keyframe that had index new_index; they stay selected
reorder_keyframes(d, new_index) ==
    IF d.view.selection.kind /= "Keyframe" THEN Err("NoKeyframeSelected", d)
    ELSE IF workbench_animation_error(d) /= ""
    THEN Err(workbench_animation_error(d), d)
    ELSE
    LET frame_indexes == d.view.selection.indexes
        animation_name == d.view.workbench_item.name
        frames == d.sheet.animations[animation_name].frames
        taken == {i + 1 : i \in frame_indexes}
        affected_frames == FramesAt(frames, taken)
        remaining == FramesAt(frames, (1..Len(frames)) \ taken)
        insert_index == new_index - Cardinality({i \in frame_indexes : i < new_index})
        reordered == SubSeq(remaining, 1, insert_index) \o affected_frames
                        \o SubSeq(remaining, insert_index + 1, Len(remaining))
        last_selected == insert_index + Cardinality(frame_indexes) - 1
        moved == [d EXCEPT
                    !.sheet.animations[animation_name].frames = reordered,
                    !.view.selection =
                        KeyframeSelection(insert_index..last_selected, last_selected)]
    IN IF \E i \in frame_indexes : i >= Len(frames)
       THEN Err("InvalidKeyframeIndex", d)
       ELSE IF insert_index > Len(remaining) THEN Err("InvalidKeyframeIndex", d)
       ELSE Ok([moved EXCEPT !.view.timeline_clock =
                    frame_start_time(moved.sheet.animations[animation_name],
                                     insert_index)])

begin_rename(d, old_name) == [d EXCEPT !.transient = Rename(old_name)]

begin_rename_selection(d) ==
    IF d.view.selection.kind \in {"Animation", "Hitbox"}
    THEN begin_rename(d, d.view.selection.last_name)
    ELSE d

\* a rename that takes the new name from whatever has it
end_rename_selection_overwrites(d) ==
    IF d.transient.kind /= "Rename" THEN Err("NotRenaming", d)
    ELSE
    LET new_name == d.transient.new_name
        old_name == d.view.selection.last_name
    IN IF d.view.selection.kind = "Animation" /\ has_animation(d.sheet, old_name)
       THEN Ok([d EXCEPT
                  !.sheet.animations =
                      With(Without(@, old_name), new_name, d.sheet.animations[old_name]),
                  !.view.selection = NameSelection("Animation", {new_name}, new_name)])
       ELSE IF d.view.selection.kind = "Hitbox" /\ workbench_frame_error(d) = ""
                /\ has_hitbox(d.sheet, d.view.workbench_item.name, old_name)
       THEN Ok([d EXCEPT
                  !.sheet.frames[d.view.workbench_item.name].hitboxes =
                      With(Without(@, old_name), new_name,
                           d.sheet.frames[d.view.workbench_item.name].hitboxes[old_name]),
                  !.view.selection = NameSelection("Hitbox", {new_name}, new_name)])
       ELSE Ok(d)

end_rename_selection(d) ==
    IF d.transient.kind /= "Rename" THEN Err("NotRenaming", d)
    ELSE
    LET new_name == d.transient.new_name
        old_name == d.view.selection.last_name
    IN IF d.view.selection.kind = "Animation" /\ old_name /= new_name
       THEN IF has_animation(d.sheet, new_name)
            THEN Err("AnimationAlreadyExists", d)
            ELSE
            LET renamed == rename_animation(d.sheet, old_name, new_name)
                selected == select_animations(
                                [d EXCEPT !.sheet = renamed.d],
                                [names |-> {new_name}, last_name |-> new_name])
            IN IF ~renamed.ok THEN Err(renamed.err, d)
               ELSE IF ~selected.ok THEN selected
               ELSE IF d.view.workbench_item = AnimationItem(old_name)
               THEN Ok([selected.d EXCEPT
                            !.view.workbench_item = AnimationItem(new_name)])
               ELSE selected
       ELSE IF d.view.selection.kind = "Hitbox" /\ old_name /= new_name
       THEN IF workbench_frame_error(d) /= "" THEN Err(workbench_frame_error(d), d)
            ELSE
            LET frame_path == d.view.workbench_item.name IN
            IF has_hitbox(d.sheet, frame_path, new_name)
            THEN Err("HitboxAlreadyExists", d)
            ELSE
            LET renamed == rename_hitbox(d.sheet, frame_path, old_name, new_name)
            IN IF ~renamed.ok THEN Err(renamed.err, d)
               ELSE select_hitboxes([d EXCEPT !.sheet = renamed.d],
                                    [names |-> {new_name}, last_name |-> new_name])
       ELSE Ok(d)

\* the iteration orders of a set of keyframe indexes
IterationOrders(indexes) ==
    {order \in [1..Cardinality(indexes) -> indexes] :
        \A i, j \in DOMAIN order : i /= j => order[i] /= order[j]}

-----------------------------------------------------------------------------
(* Document::process_command *)

\* ExportSettings::new; no sheet of the model carries export settings
NewExportSettings ==
    [texture_destination |-> "", metadata_destination |-> "",
     metadata_paths_root |-> "", format |-> "None"]

begin_export_as(d) ==
    [d EXCEPT !.persistent.export_settings_edit = <<NewExportSettings>>]

cancel_export_as(d) == [d EXCEPT !.persistent.export_settings_edit = <<>>]

\* the error of get_export_settings_edit_mut, "" when it is Ok
export_settings_edit_error(d) ==
    IF d.persistent.export_settings_edit = <<>> THEN "NotExporting" ELSE ""

end_set_export_texture_destination(d, texture_destination) ==
    IF export_settings_edit_error(d) /= "" THEN Err(export_settings_edit_error(d), d)
    ELSE Ok([d EXCEPT !.persistent.export_settings_edit[1].texture_destination
                            = texture_destination])

end_set_export_metadata_destination(d, metadata_destination) ==
    IF export_settings_edit_error(d) /= "" THEN Err(export_settings_edit_error(d), d)
    ELSE Ok([d EXCEPT !.persistent.export_settings_edit[1].metadata_destination
                            = metadata_destination])

end_set_export_metadata_paths_root(d, metadata_paths_root) ==
    IF export_settings_edit_error(d) /= "" THEN Err(export_settings_edit_error(d), d)
    ELSE Ok([d EXCEPT !.persistent.export_settings_edit[1].metadata_paths_root
                            = metadata_paths_root])

end_set_export_format(d, format) ==
    IF export_settings_edit_error(d) /= "" THEN Err(export_settings_edit_error(d), d)
    ELSE Ok([d EXCEPT !.persistent.export_settings_edit[1].format = format])

\* the match of process_command, applied to the clone
apply_command(new_document, command) ==
    CASE command.type = "MarkAsSaved" ->
            Ok([new_document EXCEPT !.persistent.disk_version = command.version])
      [] command.type = "EndImport" ->
            Ok([new_document EXCEPT !.sheet = add_frame(@, command.path)])
      [] command.type = "BeginExportAs" -> Ok(begin_export_as(new_document))
      [] command.type = "CancelExportAs" -> Ok(cancel_export_as(new_document))
      [] command.type = "EndSetExportTextureDestination" ->
            end_set_export_texture_destination(new_document, command.destination)
      [] command.type = "EndSetExportMetadataDestination" ->
            end_set_export_metadata_destination(new_document, command.destination)
      [] command.type = "EndSetExportMetadataPathsRoot" ->
            end_set_export_metadata_paths_root(new_document, command.destination)
      [] command.type = "EndSetExportFormat" ->
            end_set_export_format(new_document, command.format)
      [] command.type = "ClearSelection" -> Ok(clear_selection(new_document))
      [] command.type = "SelectFrames" -> select_frames(new_document, command.s)
      [] command.type = "SelectAnimations" -> select_animations(new_document, command.s)
      [] command.type = "SelectHitboxes" -> select_hitboxes(new_document, command.s)
      [] command.type = "SelectKeyframes" -> select_keyframes(new_document, command.s)
      [] command.type = "EditFrame" -> edit_frame(new_document, command.path)
      [] command.type = "EditAnimation" -> edit_animation(new_document, command.name)
      [] command.type = "BeginFramesDrag" ->
            Ok([new_document EXCEPT !.transient = ContentFramesDrag])
      [] command.type = "WorkbenchZoomIn" ->
            Ok([new_document EXCEPT !.view = workbench_zoom_in(@)])
      [] command.type = "WorkbenchZoomOut" ->
            Ok([new_document EXCEPT !.view = workbench_zoom_out(@)])
      [] command.type = "CreateHitbox" ->
            create_hitbox(new_document, command.position)
      [] command.type = "BeginHitboxDrag" -> begin_hitbox_drag(new_document)
      [] command.type = "UpdateHitboxDrag" ->
            update_hitbox_drag(new_document, command.delta, command.both_axis)
      [] command.type = "BeginHitboxScale" ->
            begin_hitbox_scale(new_document, command.axis)
      [] command.type = "UpdateHitboxScale" ->
            update_hitbox_scale(new_document, command.delta,
                                command.preserve_aspect_ratio)
      [] command.type = "BeginKeyframeOffsetDrag" ->
            begin_keyframe_offset_drag(new_document)
      [] command.type = "UpdateKeyframeOffsetDrag" ->
            update_keyframe_offset_drag(new_document, command.delta,
                                        command.both_axis)
      [] command.type = "TogglePlayback" -> toggle_playback(new_document)
      [] command.type = "SnapToPreviousFrame" -> snap_to_previous_frame(new_document)
      [] command.type = "SnapToNextFrame" -> snap_to_next_frame(new_document)
      [] command.type = "ToggleLooping" -> toggle_looping(new_document)
      [] command.type = "NudgeSelection" ->
            nudge_selection(new_document, command.direction, command.large)
      [] command.type = "ReorderKeyframes" ->
            reorder_keyframes(new_document, command.index)
      [] command.type = "BeginKeyframeDurationDrag" ->
            begin_keyframe_duration_drag(new_document, command.index, command.clock)
      [] command.type = "UpdateKeyframeDurationDrag" ->
            update_keyframe_duration_drag(new_document, command.clock,
                                          command.minimum)
      [] command.type = "BeginScrub" ->
            Ok([new_document EXCEPT !.transient = TimelineScrub])
      [] command.type = "UpdateScrub" ->
            update_timeline_scrub(new_document, command.time)
      [] command.type = "BeginRenameSelection" ->
            Ok(begin_rename_selection(new_document))
      [] command.type = "UpdateRenameSelection" ->
            Ok([new_document EXCEPT !.transient = Rename(command.name)])
      [] command.type = "EndRenameSelection" -> end_rename_selection(new_document)
      [] command.type = "DeleteSelection" ->
            delete_selection(new_document, command.order)
      [] command.type = "Close" -> Ok(begin_close(new_document))
      [] command.type = "CloseWithoutSaving" ->
            Ok([new_document EXCEPT !.persistent.close_state = "Allowed"])
      [] command.type = "CloseAfterSaving" ->
            Ok([new_document EXCEPT !.persistent.close_state = "Saving"])
      [] command.type = "CancelClose" ->
            Ok([new_document EXCEPT !.persistent.close_state = "None"])
      [] command.type \in EndCommands -> Ok(new_document)

\* process_command without the clearing of transient
process_command_keeps_transient(self, command) ==
    LET applied == apply_command(self, command)
    IN IF ~applied.ok THEN Err(applied.err, self)
       ELSE Ok(record_command(self, command, applied.d))

\* process_command working on self in place: a failing command leaves behind
\* what it changed before it failed
process_command_in_place(self, command) ==
    LET applied == apply_command(self, command)
        cleared == IF ~is_transient_command(command)
                   THEN [applied.d EXCEPT !.transient = NoTransient]
                   ELSE applied.d
    IN IF ~applied.ok THEN Err(applied.err, applied.d)
       ELSE Ok(record_command(self, command, cleared))

\* Document::process_command: the command is applied to a clone, which
\* record_command commits; on Err self is left as it was
process_command(self, command) ==
    LET new_document == self
        applied == apply_command(new_document, command)
        cleared == IF ~is_transient_command(command)
                   THEN [applied.d EXCEPT !.transient = NoTransient]
                   ELSE applied.d
    IN IF ~applied.ok THEN Err(applied.err, self)
       ELSE Ok(record_command(self, command, cleared))

-----------------------------------------------------------------------------
(* The caller's record of its latest step *)

\* begun_at_rest: the hitbox drag in progress, or the one this step ended, had
\* its BeginHitboxDrag processed while no gesture was active
StepRecord(type, result, before) ==
    [cmd |-> type, ok |-> result.ok, err |-> result.err,
     begun_at_rest |->
        IF type = "BeginHitboxDrag" /\ result.ok
        THEN before.transient.kind = "None"
        ELSE IF type = "EndHitboxDrag" /\ result.ok
        THEN before.transient.kind = "HitboxPosition" /\ last.begun_at_rest
        ELSE result.d.transient.kind = "HitboxPosition" /\ last.begun_at_rest]

NoStep == [cmd |-> "None", ok |-> TRUE, err |-> "", begun_at_rest |-> FALSE]

\* the caller is not following a script
NoDriver == [phase |-> "free"]

NoApp == [tabs |-> <<>>, current_tab |-> "None"]

\* the current history entry was itself a view-only or no-op edit
Mergeable(d) ==
    /\ d.history_index > 0
    /\ d.history[d.history_index].sheet = CurrentEntry(d).sheet

-----------------------------------------------------------------------------
(* The sheet on disk that Document::open reads *)

DiskSheet ==
    [frames |-> [path \in {"f1"} |->
                    [hitboxes |-> [name \in {"h1"} |->
                                    [position |-> <<0, 0>>, size |-> <<2, 2>>]]]],
     animations |-> <<>>]

-----------------------------------------------------------------------------
(* Spec: one document, gestures and history, commands in any order *)

Init ==
    /\ doc = OpenDocument("p1", DiskSheet)
    /\ last = NoStep
    /\ driver = NoDriver
    /\ app = NoApp

\* every hitbox of the sheet lies within Coords on both axes
WithinCoords(sheet) ==
    \A path \in DOMAIN sheet.frames :
        \A name \in DOMAIN sheet.frames[path].hitboxes :
            LET position == sheet.frames[path].hitboxes[name].position
            IN position[1] \in Coords /\ position[2] \in Coords

\* one call of Document::process_command
Step(command) ==
    LET result == process_command(doc, command) IN
    /\ result.d.next_version <= MaxVersion
    /\ WithinCoords(result.d.sheet)
    /\ doc' = result.d
    /\ last' = StepRecord(command.type, result, doc)
    /\ UNCHANGED <<driver, app>>

EmptyNameSelection == [names |-> {}, last_name |-> ""]

\* the hitbox selections the caller asks for; no frame has a hitbox "h9"
RequestedHitboxes ==
    {[names |-> {"h1"}, last_name |-> "h1"],
     [names |-> {"h1", "h9"}, last_name |-> "h9"],
     EmptyNameSelection}

SelectHitboxes ==
    \E s \in RequestedHitboxes : Step([type |-> "SelectHitboxes", s |-> s])

\* never Ok here: no animation is on the workbench
SelectKeyframes ==
    Step([type |-> "SelectKeyframes", s |-> [indexes |-> {0}, last_index |-> 0]])

EditFrame == \E path \in Paths : Step([type |-> "EditFrame", path |-> path])

\* a frame holds at most the hitboxes HitboxNames can name
CreateHitbox ==
    /\ workbench_frame_error(doc) = ""
        => DOMAIN doc.sheet.frames[doc.view.workbench_item.name].hitboxes
                /= HitboxNames
    /\ Step([type |-> "CreateHitbox", position |-> <<1, 0>>])

BeginHitboxDrag == Step([type |-> "BeginHitboxDrag"])

UpdateHitboxDrag ==
    \E delta \in MouseDeltas, both_axis \in BOOLEAN :
        Step([type |-> "UpdateHitboxDrag", delta |-> delta, both_axis |-> both_axis])

EndHitboxDrag == Step([type |-> "EndHitboxDrag"])

NudgeSelection ==
    \E direction \in NudgeDirections :
        Step([type |-> "NudgeSelection", direction |-> direction, large |-> FALSE])

DeleteSelection ==
    \E order \in IterationOrders(doc.view.selection.indexes) :
        Step([type |-> "DeleteSelection", order |-> order])

\* AppCommand::Undo / Redo reach Document::undo / redo directly
Undo ==
    LET result == undo(doc) IN
    /\ doc' = result.d
    /\ last' = StepRecord("Undo", result, doc)
    /\ UNCHANGED <<driver, app>>

Redo ==
    LET result == redo(doc) IN
    /\ doc' = result.d
    /\ last' = StepRecord("Redo", result, doc)
    /\ UNCHANGED <<driver, app>>

Tick ==
    /\ doc' = tick(doc, 1)
    /\ last' = StepRecord("Tick", Ok(doc'), doc)
    /\ UNCHANGED <<driver, app>>

Next ==
    \/ SelectHitboxes
    \/ SelectKeyframes
    \/ EditFrame
    \/ CreateHitbox
    \/ BeginHitboxDrag
    \/ UpdateHitboxDrag
    \/ EndHitboxDrag
    \/ NudgeSelection
    \/ DeleteSelection
    \/ Undo
    \/ Redo
    \/ Tick

Spec == Init /\ [][Next]_vars

-----------------------------------------------------------------------------
(* Properties of history and gestures, checked under Spec *)

\* C2: in every reachable state of a Document, history is non-empty and
\* history_index < history.len().
C2_HistoryCursorInRange ==
    /\ Len(doc.history) >= 1
    /\ doc.history_index >= 0
    /\ doc.history_index < Len(doc.history)

\* an undo has moved the cursor below a redo tail of two entries
C2_Witness ==
    /\ last.cmd = "Undo"
    /\ last.ok
    /\ Len(doc.history) >= 3
    /\ doc.history_index = 0

\* C5 as stated: after any successfully processed command the current sheet
\* equals history[history_index].sheet.
C5_Original ==
    (last.cmd \notin {"None", "Tick", "Undo", "Redo"} /\ last.ok)
        => doc.sheet = CurrentEntry(doc).sheet

\* C5 amended: whenever no gesture is active, in particular after any
\* successfully processed command that leaves transient None, the current
\* sheet equals history[history_index].sheet.
C5_SheetIsCurrentEntryAtRest ==
    doc.transient.kind = "None" => doc.sheet = CurrentEntry(doc).sheet

\* a drag that moved the hitbox has been ended and committed
C5_Witness ==
    /\ last.cmd = "EndHitboxDrag"
    /\ last.ok
    /\ CurrentEntry(doc).last_command = "EndHitboxDrag"
    /\ doc.sheet /= doc.history[1].sheet

\* C6: a command after which a gesture is active leaves history,
\* history_index and next_version unchanged.
C6_GestureLeavesHistoryAlone ==
    [][(last'.ok /\ doc'.transient.kind /= "None")
        => /\ doc'.history = doc.history
           /\ doc'.history_index = doc.history_index
           /\ doc'.next_version = doc.next_version]_vars

\* a drag update has moved the live sheet away from the current entry
C6_Witness ==
    /\ last.cmd = "UpdateHitboxDrag"
    /\ last.ok
    /\ doc.transient.kind = "HitboxPosition"
    /\ doc.sheet /= CurrentEntry(doc).sheet

\* some selected hitbox is not where the drag's snapshot has it
DragMovedHitbox(d) ==
    \E name \in DOMAIN d.transient.initial_offset :
        d.sheet.frames[d.view.workbench_item.name].hitboxes[name].position
            /= d.transient.initial_offset[name]

\* the step pushed exactly one entry after the cursor, holding the sheet the
\* last update computed
PushedOneEntry(before, after) ==
    /\ after.history_index = before.history_index + 1
    /\ Len(after.history) = before.history_index + 2
    /\ SubSeq(after.history, 1, before.history_index + 1)
            = SubSeq(before.history, 1, before.history_index + 1)
    /\ CurrentEntry(after).sheet = before.sheet
    /\ after.sheet = before.sheet

\* an EndHitboxDrag that ends a drag right after one of its updates
EndsDrag ==
    /\ last'.cmd = "EndHitboxDrag"
    /\ last'.ok
    /\ last.cmd = "UpdateHitboxDrag"
    /\ last.ok
    /\ doc.transient.kind = "HitboxPosition"

\* C7 as stated: BeginHitboxDrag, n >= 1 UpdateHitboxDrag, EndHitboxDrag add
\* exactly one history entry when the final position differs from the
\* initial one, holding the position the last update computed.
C7_Original ==
    [][(EndsDrag /\ DragMovedHitbox(doc)) => PushedOneEntry(doc, doc')]_vars

\* C7 amended: the same, for a BeginHitboxDrag processed while no gesture was
\* active.
C7_DragAddsOneEntry ==
    [][(EndsDrag /\ last.begun_at_rest /\ DragMovedHitbox(doc))
        => PushedOneEntry(doc, doc')]_vars

\* a drag begun at rest has been ended after moving the hitbox
C7_Witness ==
    /\ last.cmd = "EndHitboxDrag"
    /\ last.ok
    /\ last.begun_at_rest
    /\ CurrentEntry(doc).last_command = "EndHitboxDrag"
    /\ doc.history_index >= 1
    /\ doc.history[doc.history_index].sheet /= CurrentEntry(doc).sheet

\* the live sheet holds changes of a gesture in progress
GestureChangesPending(d) ==
    d.transient.kind /= "None" /\ d.sheet /= CurrentEntry(d).sheet

\* C8 as stated: only an End* command pushes a history entry holding the
\* sheet changes of a gesture in progress.
C8_Original ==
    [][(GestureChangesPending(doc) /\ doc'.history /= doc.history)
        => last'.cmd \in EndCommands]_vars

\* C8 amended: while a gesture is active, history changes only with a
\* command outside the transient-preserving list (the End* command or any
\* other non-gesture command); that command clears transient and leaves the
\* live sheet, the gesture's changes included, as the current history entry.
\* No Begin* or Update* command, undo, redo or tick changes history then.
C8_GestureCommitsOnClear ==
    [][(doc.transient.kind /= "None" /\ doc'.history /= doc.history)
        => /\ last'.ok
           /\ last'.cmd \notin TransientCommands \cup {"Undo", "Redo", "Tick"}
           /\ doc'.transient.kind = "None"
           /\ CurrentEntry(doc').sheet = doc'.sheet]_vars

\* a command that is no End* command has committed a drag
C8_Witness ==
    /\ last.cmd = "SelectHitboxes"
    /\ last.ok
    /\ CurrentEntry(doc).last_command = "SelectHitboxes"
    /\ doc.history_index >= 1
    /\ doc.history[doc.history_index].sheet /= CurrentEntry(doc).sheet

\* C10: undo and redo during a gesture fail with the undo-not-allowed error
\* and change nothing.
C10_NoUndoDuringGesture ==
    [][(last'.cmd \in {"Undo", "Redo"} /\ doc.transient.kind /= "None")
        => /\ ~last'.ok
           /\ last'.err = "UndoOperationNowAllowed"
           /\ doc' = doc]_vars

\* an undo was refused during a drag that had moved the hitbox
C10_Witness ==
    /\ last.cmd = "Undo"
    /\ ~last.ok
    /\ last.err = "UndoOperationNowAllowed"
    /\ doc.transient.kind = "HitboxPosition"
    /\ doc.sheet /= CurrentEntry(doc).sheet
    /\ doc.history_index >= 1

-----------------------------------------------------------------------------
(* SpecCap: a caller that opens a document, puts frame f1 on the workbench,
   selects its hitbox, applies n <= MaxCmds nudges (each one changes the
   sheet), then calls undo n times, then redo n times *)

\* the command whose entry is the oldest one left after MaxCmds commands
CheckpointCmd == MaxCmds - MaxHistory + 1

InitCap ==
    /\ doc = OpenDocument("p1", DiskSheet)
    /\ last = NoStep
    /\ driver = [phase |-> "edit_frame", applied |-> 0, undone |-> 0,
                 redone |-> 0, initial_sheet |-> EmptySheet,
                 checkpoint_sheet |-> EmptySheet, final_sheet |-> EmptySheet]
    /\ app = NoApp

CapEditFrame ==
    LET result == process_command(doc, [type |-> "EditFrame", path |-> "f1"]) IN
    /\ driver.phase = "edit_frame"
    /\ doc' = result.d
    /\ last' = StepRecord("EditFrame", result, doc)
    /\ driver' = [driver EXCEPT !.phase = "select"]
    /\ UNCHANGED app

CapSelectHitboxes ==
    LET command == [type |-> "SelectHitboxes",
                    s |-> [names |-> {"h1"}, last_name |-> "h1"]]
        result == process_command(doc, command)
    IN /\ driver.phase = "select"
       /\ doc' = result.d
       /\ last' = StepRecord("SelectHitboxes", result, doc)
       /\ driver' = [driver EXCEPT !.phase = "apply",
                                   !.initial_sheet = result.d.sheet,
                                   !.final_sheet = result.d.sheet]
       /\ UNCHANGED app

CapNudge ==
    LET command == [type |-> "NudgeSelection", direction |-> <<1, 0>>,
                    large |-> FALSE]
        result == process_command(doc, command)
    IN /\ driver.phase = "apply"
       /\ driver.applied < MaxCmds
       /\ doc' = result.d
       /\ last' = StepRecord("NudgeSelection", result, doc)
       /\ driver' = [driver EXCEPT
                        !.applied = @ + 1,
                        !.final_sheet = result.d.sheet,
                        !.checkpoint_sheet =
                            IF driver.applied + 1 = CheckpointCmd
                            THEN result.d.sheet ELSE @]
       /\ UNCHANGED app

CapUndo ==
    LET result == undo(doc) IN
    /\ driver.phase \in {"apply", "undo"}
    /\ driver.applied >= 1
    /\ driver.undone < driver.applied
    /\ doc' = result.d
    /\ last' = StepRecord("Undo", result, doc)
    /\ driver' = [driver EXCEPT !.phase = "undo", !.undone = @ + 1]
    /\ UNCHANGED app

CapRedo ==
    LET result == redo(doc) IN
    /\ driver.phase \in {"undo", "redo"}
    /\ driver.undone = driver.applied
    /\ driver.redone < driver.applied
    /\ doc' = result.d
    /\ last' = StepRecord("Redo", result, doc)
    /\ driver' = [driver EXCEPT !.phase = "redo", !.redone = @ + 1]
    /\ UNCHANGED app

NextCap ==
    \/ CapEditFrame
    \/ CapSelectHitboxes
    \/ CapNudge
    \/ CapUndo
    \/ CapRedo

SpecCap == InitCap /\ [][NextCap]_vars

\* the caller applied all MaxCmds commands
AppliedAll == driver.phase /= "edit_frame" /\ driver.applied = MaxCmds

\* C3: history never holds more than 100 entries; a push onto a full history
\* evicts the oldest entry and moves the index so that it designates the
\* newest one; after 150 content-mutating commands history has length 100,
\* 99 undos reach the sheet as it was after the 51st command, and a further
\* undo changes nothing.
C3_HistoryCap ==
    /\ [](Len(doc.history) <= MaxHistory)
    /\ [][(last'.cmd = "NudgeSelection" /\ Len(doc.history) = MaxHistory
                /\ doc.history_index = MaxHistory - 1)
            => /\ Len(doc'.history) = MaxHistory
               /\ SubSeq(doc'.history, 1, MaxHistory - 1) = Tail(doc.history)
               /\ doc'.history_index = MaxHistory - 1
               /\ CurrentEntry(doc').sheet = doc'.sheet
               /\ CurrentEntry(doc').sheet /= doc.sheet]_vars
    /\ []((AppliedAll /\ driver.undone = 0) => Len(doc.history) = MaxHistory)
    /\ []((AppliedAll /\ driver.undone = MaxHistory - 1)
            => /\ doc.sheet = driver.checkpoint_sheet
               /\ doc.history_index = 0)
    /\ [][(AppliedAll /\ driver.undone >= MaxHistory - 1 /\ last'.cmd = "Undo")
            => (last'.ok /\ doc' = doc)]_vars

\* all commands applied, 99 undos done and one more attempted
C3_Witness ==
    /\ AppliedAll
    /\ driver.undone = MaxHistory
    /\ last.cmd = "Undo"
    /\ Len(doc.history) = MaxHistory
    /\ doc.history_index = 0
    /\ doc.sheet = driver.checkpoint_sheet
    /\ doc.sheet /= driver.initial_sheet

\* n undos were called after n commands
UndoneAll ==
    /\ driver.phase \in {"undo", "redo"}
    /\ driver.undone = driver.applied

\* n redos were called after the n undos
RedoneAll == UndoneAll /\ driver.redone = driver.applied

\* C4 as stated: for any n content-mutating commands with no gesture active,
\* n undos return the sheet to its initial state and n redos then return it
\* to its final state.
C4_Original ==
    /\ (UndoneAll /\ driver.redone = 0) => doc.sheet = driver.initial_sheet
    /\ RedoneAll => doc.sheet = driver.final_sheet

\* C4 amended: the same for n <= 99 commands that each change the sheet; with
\* n >= 100 the entry of the initial state has been evicted from history.
C4_UndoRedoRoundTrip ==
    driver.applied <= MaxHistory - 1
        => /\ (UndoneAll /\ driver.redone = 0)
                => doc.sheet = driver.initial_sheet
           /\ RedoneAll => doc.sheet = driver.final_sheet

\* 99 commands were undone and redone
C4_Witness ==
    /\ driver.applied = MaxHistory - 1
    /\ RedoneAll
    /\ last.cmd = "Redo"
    /\ doc.sheet = driver.final_sheet
    /\ doc.sheet /= driver.initial_sheet

-----------------------------------------------------------------------------
(* SpecView: one document, no gesture; view-only commands, a content command,
   undo and redo in any order.  driver remembers the history as it was before
   the latest step (before: length, cursor, mergeable, current sheet) and, once the latest two steps were both
   view-only commands that changed the view (pair), as it was before the
   first of them (base) *)

HistoryShape(d) ==
    [len |-> Len(d.history), index |-> d.history_index,
     mergeable |-> Mergeable(d), sheet |-> CurrentEntry(d).sheet]

\* the document once frame f1 is on the workbench and its hitbox selected
PreparedDocument ==
    LET opened == OpenDocument("p1", DiskSheet)
        edited == process_command(opened, [type |-> "EditFrame", path |-> "f1"]).d
    IN process_command(edited, [type |-> "SelectHitboxes",
                                s |-> [names |-> {"h1"}, last_name |-> "h1"]]).d

InitView ==
    /\ doc = PreparedDocument
    /\ last = NoStep
    /\ driver = [prev_changed |-> FALSE, pair |-> FALSE,
                 before |-> HistoryShape(doc), base |-> HistoryShape(doc)]
    /\ app = NoApp

\* the step was a successful command that changed the view and not the sheet
ChangedViewOnly(before, result) ==
    /\ result.ok
    /\ result.d.view /= before.view
    /\ result.d.sheet = before.sheet

ViewStep(command) ==
    LET result == process_command(doc, command)
        changed == ChangedViewOnly(doc, result)
    IN /\ result.d.next_version <= MaxVersion
       /\ WithinCoords(result.d.sheet)
       /\ doc' = result.d
       /\ last' = StepRecord(command.type, result, doc)
       /\ driver' = [prev_changed |-> changed,
                     pair |-> changed /\ driver.prev_changed,
                     before |-> HistoryShape(doc),
                     base |-> driver.before]
       /\ UNCHANGED app

ViewZoomIn == ViewStep([type |-> "WorkbenchZoomIn"])

ViewZoomOut == ViewStep([type |-> "WorkbenchZoomOut"])

ViewSelectHitboxes ==
    \E s \in {[names |-> {"h1"}, last_name |-> "h1"], EmptyNameSelection} :
        ViewStep([type |-> "SelectHitboxes", s |-> s])

ViewNudge ==
    \E direction \in NudgeDirections :
        ViewStep([type |-> "NudgeSelection", direction |-> direction,
                  large |-> FALSE])

ViewUndoRedo(name, result) ==
    /\ doc' = result.d
    /\ last' = StepRecord(name, result, doc)
    /\ driver' = [prev_changed |-> FALSE, pair |-> FALSE,
                  before |-> HistoryShape(doc), base |-> driver.before]
    /\ UNCHANGED app

ViewUndo == ViewUndoRedo("Undo", undo(doc))

ViewRedo == ViewUndoRedo("Redo", redo(doc))

NextView ==
    \/ ViewZoomIn
    \/ ViewZoomOut
    \/ ViewSelectHitboxes
    \/ ViewNudge
    \/ ViewUndo
    \/ ViewRedo

SpecView == InitView /\ [][NextView]_vars

\* exactly one entry was pushed at the cursor of the baseline
OneEntryBeyond(base) ==
    /\ doc.history_index = base.index + 1
    /\ Len(doc.history) = base.index + 2

\* no entry was pushed or dropped
NoEntryBeyond(base) ==
    /\ doc.history_index = base.index
    /\ Len(doc.history) = base.len

\* C9 as stated: two consecutive view-only commands that each change the
\* view, with no gesture active, add exactly one history entry beyond the
\* baseline, whose view is the view after the second command.
C9_Original ==
    driver.pair
        => /\ OneEntryBeyond(driver.base)
           /\ CurrentEntry(doc).view = doc.view

\* C9 amended: they push exactly one entry when the baseline's current entry
\* is not mergeable (history_index = 0, or the entry below it holds another
\* sheet) and none when it is, both commands then being merged into that
\* entry; either way the current entry's view is the view after the second
\* command and its sheet is unchanged.
C9_ViewOnlyMerge ==
    driver.pair
        => /\ IF driver.base.mergeable
              THEN NoEntryBeyond(driver.base)
              ELSE OneEntryBeyond(driver.base)
           /\ CurrentEntry(doc).view = doc.view
           /\ CurrentEntry(doc).sheet = driver.base.sheet

\* two zoom changes in a row on a baseline whose current entry is a content
\* entry
C9_Witness ==
    /\ driver.pair
    /\ ~driver.base.mergeable
    /\ driver.base.index >= 1
    /\ last.cmd \in {"WorkbenchZoomIn", "WorkbenchZoomOut"}
    /\ CurrentEntry(doc).last_command \in {"WorkbenchZoomIn", "WorkbenchZoomOut"}
    /\ OneEntryBeyond(driver.base)

-----------------------------------------------------------------------------
(* AppState: the tab list and the focused path.  A tab is modelled by its
   Document; doc mirrors the focused tab *)

TabPaths == {"p1", "p2"}

is_opened(state, path) ==
    \E i \in 1..Len(state.tabs) : state.tabs[i].source = path

\* position of the first tab with this source, 0 when there is none
TabPosition(state, path) ==
    IF is_opened(state, path)
    THEN CHOOSE i \in 1..Len(state.tabs) :
            /\ state.tabs[i].source = path
            /\ \A j \in 1..(i - 1) : state.tabs[j].source /= path
    ELSE 0

\* position of the tab get_current_tab finds, 0 for None
CurrentTabPosition(state) ==
    IF state.current_tab = "None" THEN 0
    ELSE TabPosition(state, state.current_tab)

RemoveAt(seq, index) ==
    SubSeq(seq, 1, index - 1) \o SubSeq(seq, index + 1, Len(seq))

end_new_document(state, path) ==
    LET position == TabPosition(state, path)
        tabs == IF position /= 0
                THEN [state.tabs EXCEPT ![position] = NewDocument(path)]
                ELSE Append(state.tabs, NewDocument(path))
    IN Ok([state EXCEPT !.tabs = tabs, !.current_tab = path])

\* readable: whether the sheet file can be read and parsed
end_open_document(state, path, readable) ==
    IF ~is_opened(state, path)
    THEN IF ~readable THEN Err("IoError", state)
         ELSE Ok([state EXCEPT
                    !.tabs = Append(@, OpenDocument(path, DiskSheet)),
                    !.current_tab = path])
    ELSE Ok([state EXCEPT !.current_tab = path])

\* a save-as that renames the tab and leaves the focus on the old path
relocate_document_keeps_focus(state, from, to) ==
    LET position == TabPosition(state, from) IN
    IF position = 0 THEN Err("DocumentNotFound", state)
    ELSE Ok([state EXCEPT !.tabs[position].source = to])

relocate_document(state, from, to) ==
    LET position == TabPosition(state, from) IN
    IF position = 0 THEN Err("DocumentNotFound", state)
    ELSE Ok([state EXCEPT
                !.tabs[position].source = to,
                !.current_tab = IF state.current_tab = from THEN to ELSE @])

focus_document(state, path) ==
    IF is_opened(state, path) THEN Ok([state EXCEPT !.current_tab = path])
    ELSE Ok(state)

\* a close that always focuses the tab before the removed one
close_current_document_focuses_previous(state) ==
    LET index == CurrentTabPosition(state) IN
    IF index = 0 THEN Err("NoDocumentOpen", state)
    ELSE LET tabs == RemoveAt(state.tabs, index) IN
         Ok([state EXCEPT
                !.tabs = tabs,
                !.current_tab = IF tabs = <<>> THEN "None"
                                ELSE tabs[Max(index - 1, 1)].source])

close_current_document(state) ==
    LET index == CurrentTabPosition(state) IN
    IF index = 0 THEN Err("NoDocumentOpen", state)
    ELSE LET tabs == RemoveAt(state.tabs, index) IN
         Ok([state EXCEPT
                !.tabs = tabs,
                !.current_tab = IF tabs = <<>> THEN "None"
                                ELSE tabs[Min(index, Len(tabs))].source])

close_all_documents(state) == Ok(NoApp)

\* unwritable: the paths whose sheet file cannot be written
save_all_documents(state, unwritable) ==
    IF \E i \in 1..Len(state.tabs) : state.tabs[i].source \in unwritable
    THEN Err("IoError", state)
    ELSE Ok(state)

\* AppCommand::Undo / Redo: result is undo or redo of the focused tab
app_undo_redo(state, result) ==
    IF ~result.ok THEN Err(result.err, state)
    ELSE Ok([state EXCEPT !.tabs[CurrentTabPosition(state)] = result.d])

app_undo(state) ==
    IF CurrentTabPosition(state) = 0 THEN Err("NoDocumentOpen", state)
    ELSE app_undo_redo(state, undo(state.tabs[CurrentTabPosition(state)]))

app_redo(state) ==
    IF CurrentTabPosition(state) = 0 THEN Err("NoDocumentOpen", state)
    ELSE app_undo_redo(state, redo(state.tabs[CurrentTabPosition(state)]))

\* process_tab_command recording the command on the first tab of the list
process_tab_command_records_on_first(state, command) ==
    LET position == CurrentTabPosition(state) IN
    IF position = 0 THEN Err("NoDocumentOpen", state)
    ELSE LET result == process_command(state.tabs[position], command)
         IN IF ~result.ok
            THEN Err(result.err, [state EXCEPT !.tabs[position] = result.d])
            ELSE Ok([state EXCEPT !.tabs[1] = result.d])

\* AppState::process_tab_command for the commands routed to the focused tab
process_tab_command(state, command) ==
    LET position == CurrentTabPosition(state) IN
    IF position = 0 THEN Err("NoDocumentOpen", state)
    ELSE LET result == process_command(state.tabs[position], command)
             persistent_tab == TabPosition(state, result.d.source)
         IN IF ~result.ok  \* the tab stays as process_command left it
            THEN Err(result.err, [state EXCEPT !.tabs[position] = result.d])
            ELSE Ok([state EXCEPT !.tabs[persistent_tab] = result.d])

\* AppState::process_tab_command for the commands that name their tab:
\* EndImport(p, _) and EndSetExport*(p, _)
\* a follow-up whose tab is gone lands on the focused tab
process_named_tab_command_falls_back(state, command) ==
    LET position == IF is_opened(state, command.tab)
                    THEN TabPosition(state, command.tab)
                    ELSE CurrentTabPosition(state) IN
    IF position = 0 THEN Err("DocumentNotFound", state)
    ELSE LET result == process_command(state.tabs[position], command)
             persistent_tab == TabPosition(state, result.d.source)
         IN IF ~result.ok
            THEN Err(result.err, [state EXCEPT !.tabs[position] = result.d])
            ELSE Ok([state EXCEPT !.tabs[persistent_tab] = result.d])

process_named_tab_command(state, command) ==
    LET position == TabPosition(state, command.tab) IN
    IF position = 0 THEN Err("DocumentNotFound", state)
    ELSE LET result == process_command(state.tabs[position], command)
             persistent_tab == TabPosition(state, result.d.source)
         IN IF ~result.ok
            THEN Err(result.err, [state EXCEPT !.tabs[position] = result.d])
            ELSE Ok([state EXCEPT !.tabs[persistent_tab] = result.d])

-----------------------------------------------------------------------------
(* SpecApp: app commands and tab commands in any order on the tabs of
   TabPaths *)

FocusedDocument(state) ==
    IF CurrentTabPosition(state) = 0 THEN NewDocument("p1")
    ELSE state.tabs[CurrentTabPosition(state)]

InitApp ==
    /\ app = NoApp
    /\ doc = FocusedDocument(NoApp)
    /\ last = NoStep
    /\ driver = NoDriver

TabsWithinBounds(state) ==
    \A i \in 1..Len(state.tabs) :
        /\ state.tabs[i].next_version <= MaxVersion
        /\ WithinCoords(state.tabs[i].sheet)

AppStep(type, result) ==
    /\ TabsWithinBounds(result.d)
    /\ app' = result.d
    /\ doc' = FocusedDocument(result.d)
    /\ last' = [NoStep EXCEPT !.cmd = type, !.ok = result.ok, !.err = result.err]
    /\ UNCHANGED driver

EndNewDocument ==
    \E path \in TabPaths : AppStep("EndNewDocument", end_new_document(app, path))

EndOpenDocument ==
    \E path \in TabPaths, readable \in BOOLEAN :
        AppStep("EndOpenDocument", end_open_document(app, path, readable))

\* save-as to a path that no tab has
RelocateDocument ==
    \E from \in TabPaths, to \in TabPaths :
        /\ ~is_opened(app, to)
        /\ AppStep("RelocateDocument", relocate_document(app, from, to))

FocusDocument ==
    \E path \in TabPaths : AppStep("FocusDocument", focus_document(app, path))

CloseCurrentDocument ==
    AppStep("CloseCurrentDocument", close_current_document(app))

CloseAllDocuments == AppStep("CloseAllDocuments", close_all_documents(app))

SaveAllDocuments ==
    \E unwritable \in SUBSET TabPaths :
        AppStep("SaveAllDocuments", save_all_documents(app, unwritable))

AppUndo == AppStep("Undo", app_undo(app))

AppRedo == AppStep("Redo", app_redo(app))

TabCommands ==
    {[type |-> "EditFrame", path |-> "f1"],
     [type |-> "SelectHitboxes", s |-> [names |-> {"h1"}, last_name |-> "h1"]],
     [type |-> "SelectHitboxes", s |-> [names |-> {"h1", "h9"}, last_name |-> "h9"]],
     [type |-> "SelectKeyframes", s |-> [indexes |-> {0}, last_index |-> 0]],
     [type |-> "BeginHitboxDrag"],
     [type |-> "NudgeSelection", direction |-> <<1, 0>>, large |-> FALSE]}

TabCommand ==
    \E command \in TabCommands :
        AppStep(command.type, process_tab_command(app, command))

NextApp ==
    \/ EndNewDocument
    \/ EndOpenDocument
    \/ RelocateDocument
    \/ FocusDocument
    \/ CloseCurrentDocument
    \/ CloseAllDocuments
    \/ SaveAllDocuments
    \/ AppUndo
    \/ AppRedo
    \/ TabCommand

SpecApp == InitApp /\ [][NextApp]_vars

\* C1: a command that returns an error leaves the state unchanged: the tab
\* list with every tab's sheet, view, transient, persistent, next_version,
\* history and history_index, and current_tab, are as before the call.
C1_FailureLeavesStateUnchanged ==
    [][~last'.ok => (app' = app /\ doc' = doc)]_vars

\* a tab command has failed on a focused tab whose document has a history
C1_Witness ==
    /\ ~last.ok
    /\ last.cmd = "SelectKeyframes"
    /\ last.err = "NotEditingAnyAnimation"
    /\ Len(app.tabs) = 2
    /\ Len(doc.history) >= 2
    /\ doc.transient.kind /= "None"

-----------------------------------------------------------------------------
(* Cancellation of gestures, checked under Spec *)

\* C12: after any successfully processed command that is not in the
\* transient-preserving list the document's transient is None, whatever
\* gesture was active before.
C12_NonGestureCommandClearsTransient ==
    [][(last'.ok /\ last'.cmd \notin TransientCommands
                                        \cup {"Undo", "Redo", "Tick", "None"})
        => doc'.transient = NoTransient]_vars

\* EditFrame has ended a drag that had moved the hitbox
C12_Witness ==
    /\ last.cmd = "EditFrame"
    /\ last.ok
    /\ doc.transient = NoTransient
    /\ CurrentEntry(doc).last_command = "EditFrame"
    /\ doc.history_index >= 1
    /\ doc.history[doc.history_index].sheet /= CurrentEntry(doc).sheet

-----------------------------------------------------------------------------
(* SpecTabs: the app commands in any order on the tabs of TabsPaths *)

MaxTabs == 3

TabsPaths == TabPaths \cup {"p3"}

\* last.tab: the path a replayed follow-up command names; last.closed:
\* whether a close command removed that tab while the command was in flight
NoTabsStep ==
    [cmd |-> "None", ok |-> TRUE, err |-> "", begun_at_rest |-> FALSE,
     tab |-> "None", closed |-> FALSE]

InitTabs ==
    /\ app = NoApp
    /\ doc = FocusedDocument(NoApp)
    /\ last = NoTabsStep
    /\ driver = [pending |-> {}]

\* pending after a step from state to after: a tab that a close command
\* removed marks the follow-ups that name it
MarkClosed(pending, state, after, closing) ==
    {[p EXCEPT !.closed = @ \/ (closing /\ is_opened(state, p.command.tab)
                                        /\ ~is_opened(after, p.command.tab))] :
        p \in pending}

TabsStep(type, result, tab, closed, pending) ==
    /\ Len(result.d.tabs) <= MaxTabs
    /\ TabsWithinBounds(result.d)
    /\ app' = result.d
    /\ doc' = FocusedDocument(result.d)
    /\ last' = [NoTabsStep EXCEPT !.cmd = type, !.ok = result.ok,
                                  !.err = result.err, !.tab = tab,
                                  !.closed = closed]
    /\ driver' = [pending |-> MarkClosed(pending, app, result.d,
                        type \in {"CloseCurrentDocument", "CloseAllDocuments"})]

NextTabs ==
    \/ \E path \in TabsPaths :
          TabsStep("EndNewDocument", end_new_document(app, path),
                   "None", FALSE, driver.pending)
    \/ \E path \in TabsPaths :
          TabsStep("EndOpenDocument", end_open_document(app, path, TRUE),
                   "None", FALSE, driver.pending)
    \/ \E from \in TabsPaths, to \in TabsPaths :
          TabsStep("RelocateDocument", relocate_document(app, from, to),
                   "None", FALSE, driver.pending)
    \/ \E path \in TabsPaths :
          TabsStep("FocusDocument", focus_document(app, path),
                   "None", FALSE, driver.pending)
    \/ TabsStep("CloseCurrentDocument", close_current_document(app),
                "None", FALSE, driver.pending)
    \/ TabsStep("CloseAllDocuments", close_all_documents(app),
                "None", FALSE, driver.pending)

SpecTabs == InitTabs /\ [][NextTabs]_vars

\* C17: after any sequence of app commands no two tabs have the same source
\* path.
C17_TabSourcesAreDistinct ==
    \A i \in 1..Len(app.tabs), j \in 1..Len(app.tabs) :
        app.tabs[i].source = app.tabs[j].source => i = j

\* C18: current_tab is None exactly when tabs is empty, and when it is
\* Some(path) some tab has that source path.
C18_CurrentTabIsOpen ==
    /\ app.current_tab = "None" <=> app.tabs = <<>>
    /\ app.current_tab /= "None" => is_opened(app, app.current_tab)

\* a save-as has renamed the focused tab, next to another tab, and the focus
\* has followed it
C18_Witness ==
    /\ last.cmd = "RelocateDocument" /\ last.ok
    /\ app.current_tab = "p3"
    /\ Len(app.tabs) = 2
    /\ app.tabs[1].source = "p3" /\ app.tabs[2].source = "p2"

\* C19: CloseCurrentDocument removes exactly the focused tab, keeps the other
\* tabs in their order, and focuses the tab that now has the removed tab's
\* index, or the last tab when the removed one was last, or nothing when no
\* tab remains; with no focused tab it fails with NoDocumentOpen.
C19_CloseCurrentDocument ==
    [][last'.cmd = "CloseCurrentDocument" =>
        IF app.current_tab = "None"
        THEN ~last'.ok /\ last'.err = "NoDocumentOpen" /\ app' = app
        ELSE LET index == CurrentTabPosition(app)
                 remaining == Len(app.tabs) - 1
             IN /\ last'.ok
                /\ Len(app'.tabs) = remaining
                /\ \A i \in 1..remaining :
                      app'.tabs[i] = app.tabs[IF i < index THEN i ELSE i + 1]
                /\ app'.current_tab =
                      IF remaining = 0 THEN "None"
                      ELSE IF index <= remaining THEN app'.tabs[index].source
                      ELSE app'.tabs[remaining].source]_vars

\* the first of three tabs has been closed: the two others keep their order
\* and the one that moved to the front has the focus
C19_Witness ==
    /\ last.cmd = "CloseCurrentDocument" /\ last.ok
    /\ Len(app.tabs) = 2
    /\ app.tabs[1].source = "p2" /\ app.tabs[2].source = "p3"
    /\ app.current_tab = "p2"

-----------------------------------------------------------------------------
(* SpecReplay: follow-up commands are produced while their document is
   focused and replayed later, after any number of other commands *)

\* the follow-up commands the tab of this path can have in flight
FollowUps(path) ==
    {[type |-> "EndImport", tab |-> path, path |-> "f2"]}
    \cup {[type |-> "EndSetExportFormat", tab |-> path, format |-> "Template"]}
    \cup {[type |-> "RelocateDocument", tab |-> path, to |-> to] :
            to \in TabPaths \ {path}}

\* one tab for each path of TabPaths at most
ReplayStep(type, result, tab, closed, pending) ==
    /\ Len(result.d.tabs) <= Cardinality(TabPaths)
    /\ TabsStep(type, result, tab, closed, pending)

\* the app commands; the focused tab starting an import, an export setting
\* or a save-as whose result arrives later (a path has one follow-up in
\* flight at most); the replay of a follow-up
NextReplay ==
    \/ \E path \in TabPaths :
          ReplayStep("EndOpenDocument", end_open_document(app, path, TRUE),
                     "None", FALSE, driver.pending)
    \/ \E path \in TabPaths :
          ReplayStep("FocusDocument", focus_document(app, path),
                     "None", FALSE, driver.pending)
    \/ ReplayStep("CloseCurrentDocument", close_current_document(app),
                  "None", FALSE, driver.pending)
    \/ ReplayStep("CloseAllDocuments", close_all_documents(app),
                  "None", FALSE, driver.pending)
    \/ ReplayStep("BeginExportAs",
                  process_tab_command(app, [type |-> "BeginExportAs"]),
                  "None", FALSE, driver.pending)
    \/ /\ app.current_tab /= "None"
       /\ \E command \in FollowUps(app.current_tab) :
             /\ \A p \in driver.pending : p.command.tab /= command.tab
             /\ driver' = [pending |-> driver.pending
                               \cup {[command |-> command, closed |-> FALSE]}]
       /\ UNCHANGED <<doc, last, app>>
    \/ \E p \in driver.pending :
          ReplayStep(p.command.type,
                     IF p.command.type = "RelocateDocument"
                     THEN relocate_document(app, p.command.tab, p.command.to)
                     ELSE process_named_tab_command(app, p.command),
                     p.command.tab, p.closed, driver.pending \ {p})

SpecReplay == InitTabs /\ [][NextReplay]_vars

\* C20: a follow-up command (EndImport, EndSetExport*, RelocateDocument)
\* replayed after a close command removed the tab it names, while no tab has
\* that path, fails with DocumentNotFound and leaves every remaining tab and
\* current_tab unchanged.
C20_ReplayAfterClose ==
    [][(/\ Cardinality(driver'.pending) < Cardinality(driver.pending)
        /\ last'.closed
        /\ ~is_opened(app, last'.tab))
        => (~last'.ok /\ last'.err = "DocumentNotFound" /\ app' = app)]_vars

\* an import for a closed tab has been replayed next to a remaining tab
C20_Witness ==
    /\ last.cmd = "EndImport" /\ last.closed /\ ~last.ok
    /\ ~is_opened(app, last.tab)
    /\ app.tabs /= <<>>

-----------------------------------------------------------------------------
(* SpecPlay: playback, undo and redo on a document opened from a sheet with
   animations *)

Keyframe(frame, duration) ==
    [frame |-> frame, duration |-> duration, offset |-> <<0, 0>>]

\* the sheet file: a1 plays two keyframes once, a2 loops over one
AnimatedSheet ==
    [frames |-> [path \in {"f1"} |->
                    [hitboxes |-> [name \in {"h1", "h2"} |->
                        [position |-> <<0, 0>>, size |-> <<2, 2>>]]]],
     animations |->
        [name \in {"a1", "a2"} |->
            IF name = "a1"
            THEN [is_looping |-> FALSE,
                  frames |-> <<Keyframe("f1", 1), Keyframe("f1", 1)>>]
            ELSE [is_looping |-> TRUE, frames |-> <<Keyframe("f1", 2)>>]]]

InitPlay ==
    /\ doc = OpenDocument("p1", AnimatedSheet)
    /\ last = NoStep
    /\ driver = NoDriver
    /\ app = NoApp

PlayStep(command) ==
    LET result == process_command(doc, command) IN
    /\ result.d.next_version <= MaxVersion
    /\ doc' = result.d
    /\ last' = StepRecord(command.type, result, doc)
    /\ UNCHANGED <<driver, app>>

NextPlay ==
    \/ \E name \in DOMAIN AnimatedSheet.animations :
          PlayStep([type |-> "EditAnimation", name |-> name])
    \/ PlayStep([type |-> "TogglePlayback"])
    \/ PlayStep([type |-> "ToggleLooping"])
    \/ /\ doc' = tick(doc, 1)
       /\ last' = StepRecord("Tick", Ok(doc'), doc)
       /\ UNCHANGED <<driver, app>>
    \/ LET result == undo(doc) IN
       /\ doc' = result.d
       /\ last' = StepRecord("Undo", result, doc)
       /\ UNCHANGED <<driver, app>>
    \/ LET result == redo(doc) IN
       /\ doc' = result.d
       /\ last' = StepRecord("Redo", result, doc)
       /\ UNCHANGED <<driver, app>>

SpecPlay == InitPlay /\ [][NextPlay]_vars

\* C11 as stated: every successful undo or redo leaves timeline_is_playing
\* false, also at the oldest and at the newest entry.
C11_Original ==
    [][(last'.cmd \in {"Undo", "Redo"} /\ last'.ok)
        => ~doc'.persistent.timeline_is_playing]_vars

\* C11: every successful undo or redo that moves the cursor leaves
\* timeline_is_playing false; at the oldest entry (undo) or the newest entry
\* (redo) the call succeeds and changes nothing, the playback flag included.
C11_UndoRedoStopPlayback ==
    [][(last'.cmd \in {"Undo", "Redo"} /\ last'.ok)
        => IF doc'.history_index /= doc.history_index
           THEN ~doc'.persistent.timeline_is_playing
           ELSE /\ doc' = doc
                /\ doc.history_index =
                      IF last'.cmd = "Undo" THEN 0 ELSE Len(doc.history) - 1]_vars

\* redo at the newest entry has left the animation playing
C11_Witness ==
    /\ last.cmd = "Redo" /\ last.ok
    /\ doc.persistent.timeline_is_playing
    /\ doc.history_index = Len(doc.history) - 1
    /\ doc.history_index > 0

-----------------------------------------------------------------------------
(* SpecSelect: the select commands, with valid and invalid requests, on a
   document opened from AnimatedSheet *)

\* last.command: the command of the last call, with its arguments
InitSelect ==
    /\ doc = OpenDocument("p1", AnimatedSheet)
    /\ last = [NoStep EXCEPT !.cmd = "None"] @@ [command |-> [type |-> "None"]]
    /\ driver = NoDriver
    /\ app = NoApp

SelectStep(command) ==
    LET result == process_command(doc, command) IN
    /\ result.d.next_version <= MaxVersion
    /\ doc' = result.d
    /\ last' = StepRecord(command.type, result, doc) @@ [command |-> command]
    /\ UNCHANGED <<driver, app>>

\* the sheet has no frame "f9", no animation "a9" and no hitbox "h9"
RequestedNames(command_type) ==
    IF command_type = "SelectFrames"
    THEN {[last_name |-> "f1", names |-> {"f1"}],
          [last_name |-> "f1", names |-> {"f1", "f9"}],
          [last_name |-> "f9", names |-> {"f9"}]}
    ELSE IF command_type = "SelectAnimations"
    THEN {[last_name |-> "a1", names |-> {"a1"}],
          [last_name |-> "a2", names |-> {"a1", "a2"}],
          [last_name |-> "a1", names |-> {"a1", "a9"}]}
    ELSE {[last_name |-> "h1", names |-> {"h1"}],
          [last_name |-> "h2", names |-> {"h1", "h2"}],
          [last_name |-> "h1", names |-> {"h1", "h9"}]}

NextSelect ==
    \/ \E type \in {"SelectFrames", "SelectAnimations", "SelectHitboxes"} :
          \E s \in RequestedNames(type) \cup {EmptyNameSelection} :
              SelectStep([type |-> type, s |-> s])
    \/ \E s \in {[indexes |-> {0}, last_index |-> 0],
                  [indexes |-> {0, 1}, last_index |-> 1],
                  [indexes |-> {}, last_index |-> 0]} :
          SelectStep([type |-> "SelectKeyframes", s |-> s])
    \/ SelectStep([path |-> "f1", type |-> "EditFrame"])
    \/ SelectStep([name |-> "a1", type |-> "EditAnimation"])
    \/ LET result == undo(doc) IN
       /\ doc' = result.d
       /\ last' = StepRecord("Undo", result, doc) @@ [command |-> [type |-> "Undo"]]
       /\ UNCHANGED <<driver, app>>
    \/ LET result == redo(doc) IN
       /\ doc' = result.d
       /\ last' = StepRecord("Redo", result, doc) @@ [command |-> [type |-> "Redo"]]
       /\ UNCHANGED <<driver, app>>

SpecSelect == InitSelect /\ [][NextSelect]_vars

\* the identifiers a select command is checked against: the frames or the
\* animations of the sheet, or the hitboxes of the workbench frame
KnownNames(d, command_type) ==
    IF command_type = "SelectFrames" THEN DOMAIN d.sheet.frames
    ELSE IF command_type = "SelectAnimations" THEN DOMAIN d.sheet.animations
    ELSE IF workbench_frame_error(d) = ""
    THEN DOMAIN d.sheet.frames[d.view.workbench_item.name].hitboxes
    ELSE {}

\* C13: a SelectFrames / SelectAnimations / SelectHitboxes command whose
\* requested set has an identifier absent from the sheet (from the workbench
\* frame, for hitboxes) fails and view.selection is what it was before.
C13_InvalidSelectionIsRejected ==
    [][(/\ last'.cmd \in {"SelectFrames", "SelectAnimations", "SelectHitboxes"}
        /\ \E name \in last'.command.s.names :
                name \notin KnownNames(doc, last'.cmd))
        => (~last'.ok /\ doc'.view.selection = doc.view.selection)]_vars

\* a request for h1 and the missing h9 has failed on the workbench frame and
\* the two selected animations are still selected
C13_Witness ==
    /\ last.cmd = "SelectHitboxes" /\ ~last.ok /\ last.err = "InvalidHitboxName"
    /\ last.command.s.names = {"h1", "h9"}
    /\ doc.view.workbench_item = FrameItem("f1")
    /\ doc.view.selection = NameSelection("Animation", {"a1", "a2"}, "a2")

-----------------------------------------------------------------------------
(* SpecRewrite: the commands that rewrite the selection, on a document
   opened from AnimatedSheet *)

\* each select command with an empty request and with the name of an
\* animation; no frame is on the workbench, SelectHitboxes fails
NextRewrite ==
    \/ PlayStep([name |-> "a1", type |-> "EditAnimation"])
    \/ \E type \in {"SelectFrames", "SelectAnimations", "SelectHitboxes"} :
          \E s \in {EmptyNameSelection, [last_name |-> "a2", names |-> {"a2"}]} :
              PlayStep([type |-> type, s |-> s])
    \/ \E s \in {[indexes |-> {0}, last_index |-> 0],
                  [indexes |-> {}, last_index |-> 0]} :
          PlayStep([type |-> "SelectKeyframes", s |-> s])
    \/ \E order \in IterationOrders(doc.view.selection.indexes) :
          PlayStep([type |-> "DeleteSelection", order |-> order])
    \/ PlayStep([index |-> 2, type |-> "ReorderKeyframes"])
    \/ PlayStep([time |-> 0, type |-> "UpdateScrub"])
    \/ PlayStep([name |-> "a3", type |-> "UpdateRenameSelection"])
    \/ PlayStep([type |-> "EndRenameSelection"])

SpecRewrite == InitPlay /\ [][NextRewrite]_vars

\* Some(selection) with an empty item set
IsEmptySelection(selection) ==
    \/ selection.kind \in {"Frame", "Animation", "Hitbox"} /\ selection.names = {}
    \/ selection.kind = "Keyframe" /\ selection.indexes = {}

\* C14: view.selection is never Some(selection) with an empty item set: a
\* select command with an empty request, and delete, reorder, rename and
\* scrub, leave the selection None or non-empty.  The views of the history
\* entries, which undo and redo restore, are in the same case.
C14_SelectionIsNeverEmpty ==
    /\ ~IsEmptySelection(doc.view.selection)
    /\ \A i \in 1..Len(doc.history) : ~IsEmptySelection(doc.history[i].view.selection)

\* an empty request has cleared the selection that a rename had put on the
\* renamed animation
C14_Witness ==
    /\ last.cmd = "SelectAnimations" /\ last.ok
    /\ doc.view.selection = NoSelection
    /\ doc.history_index >= 1
    /\ doc.history[doc.history_index].view.selection
            = NameSelection("Animation", {"a3"}, "a3")

-----------------------------------------------------------------------------
(* SpecRename: renaming the selected animation or hitbox of a document
   opened from AnimatedSheet *)

\* the rename buffer takes the name of the other animation, of the other
\* hitbox, or a name nothing has
NextRename ==
    \/ PlayStep([path |-> "f1", type |-> "EditFrame"])
    \/ PlayStep([name |-> "a1", type |-> "EditAnimation"])
    \/ PlayStep([s |-> [last_name |-> "a1", names |-> {"a1"}],
                 type |-> "SelectAnimations"])
    \/ PlayStep([s |-> [last_name |-> "h1", names |-> {"h1"}],
                 type |-> "SelectHitboxes"])
    \/ PlayStep([type |-> "BeginRenameSelection"])
    \/ \E name \in {"a2", "h2", "n3"} :
          PlayStep([type |-> "UpdateRenameSelection", name |-> name])
    \/ PlayStep([type |-> "EndRenameSelection"])

SpecRename == InitPlay /\ [][NextRename]_vars

\* the rename buffer holds the name of another animation (of another hitbox
\* of the workbench frame) than the selected one
RenameCollides(d) ==
    /\ d.transient.kind = "Rename"
    /\ d.transient.new_name /= d.view.selection.last_name
    /\ \/ /\ d.view.selection.kind = "Animation"
          /\ has_animation(d.sheet, d.transient.new_name)
       \/ /\ d.view.selection.kind = "Hitbox"
          /\ workbench_frame_error(d) = ""
          /\ has_hitbox(d.sheet, d.view.workbench_item.name, d.transient.new_name)

\* C15: EndRenameSelection with an animation selected and a rename buffer
\* equal to the name of another animation fails with AnimationAlreadyExists
\* (HitboxAlreadyExists for a hitbox of the workbench frame), and the sheet,
\* the selection, the workbench item, the Rename transient and the history
\* are unchanged.
C15_RenameCollision ==
    [][(last'.cmd = "EndRenameSelection" /\ RenameCollides(doc))
        => /\ ~last'.ok
           /\ last'.err = IF doc.view.selection.kind = "Animation"
                          THEN "AnimationAlreadyExists"
                          ELSE "HitboxAlreadyExists"
           /\ doc' = doc]_vars

\* renaming a1, which is on the workbench, to a2 has failed and the rename
\* is still open
C15_Witness ==
    /\ last.cmd = "EndRenameSelection" /\ last.err = "AnimationAlreadyExists"
    /\ doc.transient = Rename("a2")
    /\ doc.view.selection = NameSelection("Animation", {"a1"}, "a1")
    /\ doc.view.workbench_item = AnimationItem("a1")
    /\ DOMAIN doc.sheet.animations = {"a1", "a2"}

-----------------------------------------------------------------------------
(* SpecScrub: the hitbox drag and the timeline scrub, with Update commands
   arriving before Begin and after End, on a document opened from
   AnimatedSheet *)

ScrubStep(command) ==
    /\ WithinCoords(process_command(doc, command).d.sheet)
    /\ PlayStep(command)

\* a1 has a keyframe at time 0 and at time 1
NextScrub ==
    \/ ScrubStep([path |-> "f1", type |-> "EditFrame"])
    \/ ScrubStep([name |-> "a1", type |-> "EditAnimation"])
    \/ ScrubStep([s |-> [last_name |-> "h1", names |-> {"h1"}],
                  type |-> "SelectHitboxes"])
    \/ ScrubStep([type |-> "BeginHitboxDrag"])
    \/ \E delta \in MouseDeltas :
          ScrubStep([type |-> "UpdateHitboxDrag", delta |-> delta, both_axis |-> TRUE])
    \/ ScrubStep([type |-> "EndHitboxDrag"])
    \/ ScrubStep([type |-> "BeginScrub"])
    \/ \E time \in {0, 1} : ScrubStep([type |-> "UpdateScrub", time |-> time])
    \/ ScrubStep([type |-> "EndScrub"])

SpecScrub == InitPlay /\ [][NextScrub]_vars

\* the Transient variant an Update command belongs to
MatchingTransient(command_type) ==
    IF command_type = "UpdateHitboxDrag" THEN "HitboxPosition" ELSE "TimelineScrub"

\* C16: a gesture Update command (UpdateHitboxDrag, UpdateScrub) processed
\* while no matching Transient variant is active fails and changes nothing.
\* Which error it fails with is left open here.
C16_UpdateWithoutGestureFails ==
    [][(/\ last'.cmd \in {"UpdateHitboxDrag", "UpdateScrub"}
        /\ doc.transient.kind /= MatchingTransient(last'.cmd))
        => (~last'.ok /\ doc' = doc)]_vars

-----------------------------------------------------------------------------
(* SpecTimeline: playback and ticks on a document opened from a sheet with
   a three-keyframe animation, a looping one, one of zero duration and one
   without keyframes *)

\* no tick starts with the clock at MaxClock or beyond, or takes the sum of
\* the ticks since the last command beyond MaxClock
MaxClock == 300

\* the sheet file: a1 plays 300 ms once, a2 loops over 150 ms, a3 has one
\* keyframe of no duration, a4 has no keyframe
TimelineSheet ==
    [animations |->
        [name \in {"a1", "a2", "a3", "a4"} |->
            [frames |-> CASE name = "a1" -> <<Keyframe("f1", 100), Keyframe("f1", 100),
                                              Keyframe("f1", 100)>>
                          [] name = "a2" -> <<Keyframe("f1", 100), Keyframe("f1", 50)>>
                          [] name = "a3" -> <<Keyframe("f1", 0)>>
                          [] name = "a4" -> <<>>,
             is_looping |-> name = "a2"]],
     frames |-> [path \in {"f1"} |->
                    [hitboxes |-> [name \in {"h1"} |->
                        [position |-> <<0, 0>>, size |-> <<2, 2>>]]]]]

\* driver.ticked: the sum of the deltas of the ticks since the last command;
\* driver.counting: that command left the document playing from clock 0;
\* driver.clock_before: the clock that command found; driver.command: that
\* command, with its arguments
InitTimeline ==
    /\ doc = OpenDocument("p1", TimelineSheet)
    /\ last = NoStep
    /\ driver = [clock_before |-> 0, command |-> [type |-> "None"],
                 counting |-> FALSE, ticked |-> 0]
    /\ app = NoApp

TimelineStep(command) ==
    LET result == process_command(doc, command) IN
    /\ result.d.next_version <= MaxVersion
    /\ doc' = result.d
    /\ last' = StepRecord(command.type, result, doc)
    /\ driver' = [clock_before |-> doc.view.timeline_clock,
                  command |-> command,
                  counting |-> /\ result.d.persistent.timeline_is_playing
                               /\ result.d.view.timeline_clock = 0,
                  ticked |-> 0]
    /\ UNCHANGED app

NextTimeline ==
    \/ \E name \in DOMAIN TimelineSheet.animations :
          TimelineStep([name |-> name, type |-> "EditAnimation"])
    \/ TimelineStep([path |-> "f1", type |-> "EditFrame"])
    \/ TimelineStep([type |-> "TogglePlayback"])
    \/ \E delta \in {50, 100} :
          /\ driver.ticked + delta <= MaxClock
          /\ doc.view.timeline_clock < MaxClock
          /\ doc' = tick(doc, delta)
          /\ last' = StepRecord("Tick", Ok(doc'), doc)
          /\ driver' = [driver EXCEPT !.ticked = @ + delta]
          /\ UNCHANGED app

SpecTimeline == InitTimeline /\ [][NextTimeline]_vars

\* the workbench item is an animation of the sheet with a positive duration
HasPlayableAnimation(d) ==
    /\ workbench_animation_error(d) = ""
    /\ get_duration(d.sheet.animations[d.view.workbench_item.name]) > 0

\* C22: a tick changes view.timeline_clock only if timeline_is_playing is true
\* and the workbench item is an animation of the sheet with positive
\* duration; in every other state the clock is unchanged, or reset to 0 for
\* a playing animation without duration, and never advanced.
C22_TickAdvancesOnlyPlayingAnimation ==
    [][(/\ last'.cmd = "Tick"
        /\ ~(doc.persistent.timeline_is_playing /\ HasPlayableAnimation(doc)))
        => \/ doc'.view.timeline_clock = doc.view.timeline_clock
           \/ /\ doc.persistent.timeline_is_playing
              /\ workbench_animation_error(doc) = ""
              /\ doc'.view.timeline_clock = 0]_vars

\* C23: while a looping workbench animation of duration d > 0 plays, after
\* ticks summing to T from clock 0 the clock is T mod d and playback is
\* still on.
C23_LoopingClockIsModulo ==
    (driver.counting /\ HasPlayableAnimation(doc)
        /\ doc.sheet.animations[doc.view.workbench_item.name].is_looping)
    => /\ doc.persistent.timeline_is_playing
       /\ doc.view.timeline_clock
            = driver.ticked
                % get_duration(doc.sheet.animations[doc.view.workbench_item.name])

\* keyframes of 100 and 50 ms, looping, ticked by 200 ms: the clock is at 50
C23_Witness ==
    /\ driver.counting /\ driver.ticked = 200
    /\ doc.view.workbench_item = AnimationItem("a2")
    /\ doc.persistent.timeline_is_playing
    /\ doc.view.timeline_clock = 50

\* C29: a tick that brings a playing non-looping workbench animation of
\* duration d > 0 to d or beyond stops playback with the clock at d, and no
\* tick started from a clock <= d leaves the clock above d; a playing
\* animation of zero duration or without keyframes is stopped with the clock
\* at 0 by the first tick.
C29_NonLoopingStopsAtEnd ==
    [][(/\ last'.cmd = "Tick"
        /\ doc.persistent.timeline_is_playing
        /\ workbench_animation_error(doc) = "")
        => LET animation == doc.sheet.animations[doc.view.workbench_item.name]
               d == get_duration(animation)
               delta == driver'.ticked - driver.ticked
               clock == doc.view.timeline_clock
           IN IF d > 0
              THEN (~animation.is_looping /\ clock <= d)
                    => /\ doc'.view.timeline_clock <= d
                       /\ clock + delta >= d
                            => /\ ~doc'.persistent.timeline_is_playing
                               /\ doc'.view.timeline_clock = d
              ELSE /\ ~doc'.persistent.timeline_is_playing
                   /\ doc'.view.timeline_clock = 0]_vars

\* a tick of 100 ms at 250 ms of the 300 ms of a1 has stopped it at 300 ms
C29_Witness ==
    /\ last.cmd = "Tick"
    /\ doc.view.workbench_item = AnimationItem("a1")
    /\ driver.clock_before = 250 /\ driver.ticked = 100
    /\ doc.view.timeline_clock = 300
    /\ ~doc.persistent.timeline_is_playing

\* C30: TogglePlayback with an animation of the sheet on the workbench flips
\* timeline_is_playing; turning playback on for a non-looping animation of
\* duration d > 0 whose clock is >= d resets the clock to 0, in every other
\* case the clock is unchanged; without such an animation it fails and
\* flips nothing.
C30_TogglePlayback ==
    [][last'.cmd = "TogglePlayback"
        => IF workbench_animation_error(doc) = ""
           THEN LET animation == doc.sheet.animations[doc.view.workbench_item.name]
                    d == get_duration(animation)
                IN /\ last'.ok
                   /\ doc'.persistent.timeline_is_playing
                        = ~doc.persistent.timeline_is_playing
                   /\ doc'.view.timeline_clock =
                        IF /\ ~doc.persistent.timeline_is_playing
                           /\ ~animation.is_looping
                           /\ d > 0
                           /\ doc.view.timeline_clock >= d
                        THEN 0
                        ELSE doc.view.timeline_clock
           ELSE ~last'.ok /\ doc' = doc]_vars

\* playback of a1, stopped at its end, has been resumed from 0
C30_Witness ==
    /\ last.cmd = "TogglePlayback" /\ last.ok
    /\ doc.view.workbench_item = AnimationItem("a1")
    /\ driver.clock_before = 300
    /\ doc.view.timeline_clock = 0
    /\ doc.persistent.timeline_is_playing

-----------------------------------------------------------------------------
(* SpecKeyframes: keyframe selections, with indexes the animation has and
   indexes it has not, while a1 of TimelineSheet is played and stopped *)

NextKeyframes ==
    \/ TimelineStep([name |-> "a1", type |-> "EditAnimation"])
    \/ TimelineStep([type |-> "TogglePlayback"])
    \/ \E s \in {[indexes |-> {0}, last_index |-> 0],
                 [indexes |-> {1}, last_index |-> 1],
                 [indexes |-> {1, 2}, last_index |-> 2],
                 [indexes |-> {0, 5}, last_index |-> 0],
                 [indexes |-> {0, 5}, last_index |-> 5],
                 [indexes |-> {}, last_index |-> 0]} :
          TimelineStep([s |-> s, type |-> "SelectKeyframes"])
    \/ /\ driver.ticked + 100 <= MaxClock
       /\ doc.view.timeline_clock < MaxClock
       /\ doc' = tick(doc, 100)
       /\ last' = StepRecord("Tick", Ok(doc'), doc)
       /\ driver' = [driver EXCEPT !.ticked = @ + 100]
       /\ UNCHANGED app

SpecKeyframes == InitTimeline /\ [][NextKeyframes]_vars

\* C27: after a successful select command every selected identifier exists:
\* every selected keyframe index, not only the last touched one, is an index
\* of the workbench animation, every selected frame and animation is in the
\* sheet, every selected hitbox in the workbench frame.
C27_SelectedIdentifiersExist ==
    [][(last'.cmd \in {"SelectFrames", "SelectAnimations", "SelectHitboxes",
                       "SelectKeyframes"} /\ last'.ok)
        => LET selection == doc'.view.selection IN
           /\ selection.kind = "Keyframe"
                => /\ workbench_animation_error(doc') = ""
                   /\ \A i \in selection.indexes :
                        i < get_num_frames(
                                doc'.sheet.animations[doc'.view.workbench_item.name])
           /\ selection.kind = "Frame"
                => \A path \in selection.names : has_frame(doc'.sheet, path)
           /\ selection.kind = "Animation"
                => \A name \in selection.names : has_animation(doc'.sheet, name)
           /\ selection.kind = "Hitbox"
                => /\ workbench_frame_error(doc') = ""
                   /\ \A name \in selection.names :
                        has_hitbox(doc'.sheet, doc'.view.workbench_item.name, name)]_vars

\* the clock lies in the time span of keyframe index i of the animation
ClockInSpan(animation, i, clock) ==
    /\ clock >= frame_start_time(animation, i)
    /\ clock < frame_start_time(animation, i + 1)

\* C28 as stated: a successful SelectKeyframes with a non-empty set moves the
\* clock to the start of the last-touched keyframe unless playback is on or
\* the clock lies in that keyframe's span [start, start + duration).
C28_Original ==
    [][(last'.cmd = "SelectKeyframes" /\ last'.ok
            /\ doc'.view.selection.kind = "Keyframe")
        => LET animation == doc.sheet.animations[doc.view.workbench_item.name]
               i == doc'.view.selection.last_index
           IN doc'.view.timeline_clock =
                IF \/ doc.persistent.timeline_is_playing
                   \/ ClockInSpan(animation, i, doc.view.timeline_clock)
                THEN doc.view.timeline_clock
                ELSE frame_start_time(animation, i)]_vars

\* C28: a successful SelectKeyframes with a non-empty set moves the clock to
\* the start of the last-touched keyframe unless playback is on, or the clock
\* lies in that keyframe's span, or that keyframe is the last one of the
\* animation and the clock is at or past its start.
C28_SelectKeyframesMovesClock ==
    [][(last'.cmd = "SelectKeyframes" /\ last'.ok
            /\ doc'.view.selection.kind = "Keyframe")
        => LET animation == doc.sheet.animations[doc.view.workbench_item.name]
               i == doc'.view.selection.last_index
           IN doc'.view.timeline_clock =
                IF \/ doc.persistent.timeline_is_playing
                   \/ ClockInSpan(animation, i, doc.view.timeline_clock)
                   \/ /\ i = get_num_frames(animation) - 1
                      /\ doc.view.timeline_clock >= frame_start_time(animation, i)
                THEN doc.view.timeline_clock
                ELSE frame_start_time(animation, i)]_vars

\* with playback stopped at 200 ms, in the third keyframe, selecting the
\* second keyframe has moved the clock to 100 ms
C28_Witness ==
    /\ last.cmd = "SelectKeyframes" /\ last.ok
    /\ doc.view.selection = KeyframeSelection({1}, 1)
    /\ ~doc.persistent.timeline_is_playing
    /\ driver.clock_before = 200
    /\ doc.view.timeline_clock = 100

-----------------------------------------------------------------------------
(* SpecDurationDrag: the keyframe duration drag on a1 of TimelineSheet, whose
   three keyframes last 100 ms each; the middle keyframe is dragged, from
   the boundary at its end *)

\* no keyframe is dragged further than this from 100 ms
MaxDragged == 30

NextDurationDrag ==
    \/ TimelineStep([name |-> "a1", type |-> "EditAnimation"])
    \/ \E s \in {[indexes |-> {0, 1, 2}, last_index |-> 1],
                 [indexes |-> {1}, last_index |-> 1]} :
          TimelineStep([s |-> s, type |-> "SelectKeyframes"])
    \/ TimelineStep([clock |-> 200, index |-> 1,
                     type |-> "BeginKeyframeDurationDrag"])
    \/ \E clock \in {170, 230} :
          LET command == [clock |-> clock, minimum |-> 1,
                          type |-> "UpdateKeyframeDurationDrag"]
              frames == process_command(doc, command).d.sheet.animations["a1"].frames
          IN /\ \A k \in 1..Len(frames) :
                    Abs(frames[k].duration - 100) <= MaxDragged
             /\ TimelineStep(command)
    \/ TimelineStep([type |-> "EndKeyframeDurationDrag"])

SpecDurationDrag == InitTimeline /\ [][NextDurationDrag]_vars

\* C24: a successful UpdateKeyframeDurationDrag divides cursor clock -
\* reference clock by the number of selected keyframes with index <=
\* frame_being_dragged (at least 1), adds the quotient to the initial
\* duration of exactly those keyframes, down to the minimum duration, and
\* leaves the selected keyframes after the dragged one at their initial
\* duration: [100, 100, 100] with the middle one dragged by +30 ms gives
\* [115, 115, 100].
C24_DurationDragProportional ==
    [][(last'.cmd = "UpdateKeyframeDurationDrag" /\ last'.ok)
        => LET selected == doc.view.selection.indexes
               dragged == doc.transient.frame_being_dragged
               initial == doc.transient.initial_duration
               frames == doc'.sheet.animations[doc.view.workbench_item.name].frames
               delta == driver'.command.clock - doc.transient.reference_clock
               count == Max(Cardinality({i \in selected : i <= dragged}), 1)
               quotient == IF delta >= 0 THEN delta \div count
                           ELSE -((-delta) \div count)
           IN \A i \in selected :
                frames[i + 1].duration =
                    IF i <= dragged
                    THEN Max(initial[i] + quotient, driver'.command.minimum)
                    ELSE initial[i]]_vars

-----------------------------------------------------------------------------
(* SpecRouting: commands for the focused tab, commands that name their tab,
   undo and redo, with two documents open *)

NextRouting ==
    \/ \E path \in TabPaths :
          ReplayStep("EndOpenDocument", end_open_document(app, path, TRUE),
                     "None", FALSE, {})
    \/ \E path \in TabPaths :
          ReplayStep("FocusDocument", focus_document(app, path), "None", FALSE, {})
    \/ \E command \in {[path |-> "f1", type |-> "EditFrame"],
                       [s |-> [last_name |-> "h1", names |-> {"h1"}],
                        type |-> "SelectHitboxes"]} :
          ReplayStep(command.type, process_tab_command(app, command),
                     "None", FALSE, {})
    \/ \E path \in TabPaths :
          ReplayStep("EndImport",
                     process_named_tab_command(
                        app, [path |-> "f2", tab |-> path, type |-> "EndImport"]),
                     path, FALSE, {})
    \/ ReplayStep("Undo", app_undo(app), "None", FALSE, {})
    \/ ReplayStep("Redo", app_redo(app), "None", FALSE, {})

SpecRouting == InitTabs /\ [][NextRouting]_vars

\* C21: a tab command, Undo or Redo changes at most one tab, the tab the
\* command names or else the focused tab; every other tab, the number and
\* order of the tabs and current_tab are unchanged.
C21_TabIndependence ==
    [][last'.cmd \notin {"EndOpenDocument", "FocusDocument"}
        => LET target == IF last'.tab /= "None" THEN TabPosition(app, last'.tab)
                         ELSE CurrentTabPosition(app)
           IN /\ Len(app'.tabs) = Len(app.tabs)
              /\ app'.current_tab = app.current_tab
              /\ \A i \in 1..Len(app.tabs) :
                    i /= target => app'.tabs[i] = app.tabs[i]]_vars

\* the second tab, which has the focus, has been edited and undone while
\* the first tab keeps the frame imported for it and its own history
C21_Witness ==
    /\ last.cmd = "Undo" /\ last.ok
    /\ Len(app.tabs) = 2
    /\ app.current_tab = app.tabs[2].source
    /\ app.tabs[2].history_index < Len(app.tabs[2].history) - 1
    /\ has_frame(app.tabs[1].sheet, "f2")
    /\ ~has_frame(app.tabs[2].sheet, "f2")
    /\ app.tabs[1].history_index = Len(app.tabs[1].history) - 1

-----------------------------------------------------------------------------
(* SpecRecord: what record_command does to history for content changes,
   view-only changes and commands that change nothing, with undo and redo
   moving the cursor in between *)

\* driver.tail: the number of entries above the cursor before the step;
\* driver.mergeable: whether the current entry was mergeable before the step
RecordStep(type, result) ==
    /\ result.d.next_version <= MaxVersion
    /\ WithinCoords(result.d.sheet)
    /\ doc' = result.d
    /\ last' = StepRecord(type, result, doc)
    /\ driver' = [mergeable |-> Mergeable(doc),
                  phase |-> "free",
                  tail |-> Len(doc.history) - doc.history_index - 1]
    /\ UNCHANGED app

NextRecord ==
    \/ \E command \in {[path |-> "f1", type |-> "EditFrame"],
                       [type |-> "WorkbenchZoomIn"],
                       [s |-> [last_name |-> "h1", names |-> {"h1"}],
                        type |-> "SelectHitboxes"]} :
          RecordStep(command.type, process_command(doc, command))
    \/ RecordStep("EndImport",
                  process_command(doc, [path |-> "f2", type |-> "EndImport"]))
    \/ \E command \in {[type |-> "BeginHitboxDrag"],
                       [both_axis |-> TRUE, delta |-> <<2, 0>>,
                        type |-> "UpdateHitboxDrag"],
                       [type |-> "EndHitboxDrag"]} :
          RecordStep(command.type, process_command(doc, command))
    \/ RecordStep("Undo", undo(doc))
    \/ RecordStep("Redo", redo(doc))

SpecRecord == Init /\ [][NextRecord]_vars

\* the step processed a command successfully and no gesture is active
RecordedAtRest ==
    /\ last'.ok
    /\ last'.cmd \notin {"Undo", "Redo"}
    /\ doc'.transient = NoTransient

\* C25: a command processed with no gesture active whose sheet differs from
\* the current entry's increments next_version by one, drops the entries
\* above the cursor, appends one entry with the new sheet, the new view, the
\* command and the new version, and leaves the cursor on it; redo then
\* changes nothing.
C25_ContentChangePushes ==
    [][(RecordedAtRest /\ doc'.sheet /= CurrentEntry(doc).sheet)
        => /\ doc'.next_version = doc.next_version + 1
           /\ doc'.history
                = Append(SubSeq(doc.history, 1, doc.history_index + 1),
                         HistoryEntry(last'.cmd, doc'.sheet, doc'.view,
                                      doc'.next_version))
           /\ doc'.history_index = Len(doc'.history) - 1
           /\ redo(doc').ok
           /\ redo(doc').d = doc']_vars

\* a frame was imported while an undone entry was above the cursor, and the
\* new entry took its place
C25_Witness ==
    /\ last.cmd = "EndImport" /\ last.ok
    /\ driver.tail > 0
    /\ doc.history_index >= 1
    /\ doc.history_index = Len(doc.history) - 1
    /\ CurrentEntry(doc).last_command = "EndImport"
    /\ CurrentEntry(doc).version = doc.next_version
    /\ has_frame(doc.sheet, "f2")

\* C26: a command processed with no gesture active whose sheet equals the
\* current entry's and whose view differs from it overwrites the current
\* entry's view in place when the entry below holds the same sheet (length,
\* cursor and versions unchanged) and otherwise pushes an entry with the
\* unchanged sheet; when the view is equal too, history is not touched.
C26_ViewOnlyMergeRule ==
    [][(RecordedAtRest /\ doc'.sheet = CurrentEntry(doc).sheet)
        => /\ doc'.next_version = doc.next_version
           /\ IF doc'.view = CurrentEntry(doc).view
              THEN /\ doc'.history = doc.history
                   /\ doc'.history_index = doc.history_index
              ELSE IF Mergeable(doc)
              THEN /\ doc'.history
                        = [doc.history EXCEPT ![doc.history_index + 1].view
                                                  = doc'.view]
                   /\ doc'.history_index = doc.history_index
              ELSE /\ doc'.history
                        = Append(SubSeq(doc.history, 1, doc.history_index + 1),
                                 HistoryEntry(last'.cmd, CurrentEntry(doc).sheet,
                                              doc'.view, doc.next_version))
                   /\ doc'.history_index = Len(doc'.history) - 1]_vars

\* a zoom change was merged into a view-only entry that has an undone entry
\* above it: the entry keeps its command and the undone entry stays
C26_Witness ==
    /\ last.cmd = "WorkbenchZoomIn" /\ last.ok
    /\ driver.mergeable
    /\ driver.tail > 0
    /\ Len(doc.history) - doc.history_index - 1 = driver.tail
    /\ CurrentEntry(doc).last_command /= "WorkbenchZoomIn"
    /\ CurrentEntry(doc).view = doc.view

-----------------------------------------------------------------------------
(* SpecSnap: snapping the clock to keyframe boundaries, from clocks that
   playback left on and between the boundaries *)

NextSnap ==
    \/ \E name \in DOMAIN TimelineSheet.animations :
          TimelineStep([name |-> name, type |-> "EditAnimation"])
    \/ TimelineStep([type |-> "TogglePlayback"])
    \/ TimelineStep([type |-> "SnapToPreviousFrame"])
    \/ TimelineStep([type |-> "SnapToNextFrame"])
    \/ \E delta \in {50, 100} :
          /\ driver.ticked + delta <= MaxClock
          /\ doc.view.timeline_clock < MaxClock
          /\ doc' = tick(doc, delta)
          /\ last' = StepRecord("Tick", Ok(doc'), doc)
          /\ driver' = [driver EXCEPT !.ticked = @ + delta]
          /\ UNCHANGED app

SpecSnap == InitTimeline /\ [][NextSnap]_vars

\* the start times of the animation's keyframes
StartTimes(animation) ==
    {frame_start_time(animation, i) : i \in 0..(Len(animation.frames) - 1)}

\* where the snap command should put the clock
SnapTarget(command_type, animation, now) ==
    LET starts == StartTimes(animation)
        earlier == {t \in starts : t < now}
        later == {t \in starts : t > now}
    IN IF command_type = "SnapToPreviousFrame"
       THEN IF earlier /= {} THEN CHOOSE t \in earlier : \A u \in earlier : u <= t
            ELSE frame_start_time(animation, 0)
       ELSE IF later /= {} THEN CHOOSE t \in later : \A u \in later : t <= u
            ELSE frame_start_time(animation, Len(animation.frames) - 1)

\* the snap command did what C31 says for the animation on the workbench
Snapped(require_duration) ==
    LET animation == doc.sheet.animations[doc.view.workbench_item.name]
    IN IF Len(animation.frames) = 0
       THEN /\ last'.ok
            /\ doc'.sheet = doc.sheet
            /\ doc'.view = doc.view
       ELSE (require_duration => get_duration(animation) > 0)
            => /\ last'.ok
               /\ doc'.view.timeline_clock
                    = SnapTarget(last'.cmd, animation, doc.view.timeline_clock)
               /\ doc'.view.selection.kind = "Keyframe"
               /\ Cardinality(doc'.view.selection.indexes) = 1
               /\ \A i \in doc'.view.selection.indexes :
                     ClockInSpan(animation, i, doc'.view.timeline_clock)

\* C31 as stated: SnapToPreviousFrame / SnapToNextFrame on an animation with
\* at least one keyframe put the clock on the greatest start time below it,
\* respectively the least start time above it, else on the first,
\* respectively last, start time, and select exactly the keyframe holding
\* the new clock; with no keyframe they succeed and change nothing.
C31_Original ==
    [][(/\ last'.cmd \in {"SnapToPreviousFrame", "SnapToNextFrame"}
        /\ workbench_animation_error(doc) = "")
        => Snapped(FALSE)]_vars

\* C31 amended: the same for an animation with at least one keyframe and a
\* positive total duration.
C31_SnapToBoundary ==
    [][(/\ last'.cmd \in {"SnapToPreviousFrame", "SnapToNextFrame"}
        /\ workbench_animation_error(doc) = "")
        => Snapped(TRUE)]_vars

\* SnapToPreviousFrame took the clock from inside the third keyframe of a1
\* back to the start of that keyframe, which is now the selection
C31_Witness ==
    /\ last.cmd = "SnapToPreviousFrame" /\ last.ok
    /\ doc.view.workbench_item = AnimationItem("a1")
    /\ driver.clock_before = 250
    /\ doc.view.timeline_clock = 200
    /\ doc.view.selection = KeyframeSelection({2}, 2)

-----------------------------------------------------------------------------
(* SpecGesture: hitbox drag, hitbox scale and keyframe offset drag, each
   begun while no gesture is active, updated any number of times and ended
   by its End command *)

\* the sheet file: two hitboxes of different shapes on f1, two keyframes in a1
GestureSheet ==
    [animations |->
        [name \in {"a1"} |->
            [frames |-> <<Keyframe("f1", 100), Keyframe("f1", 100)>>,
             is_looping |-> FALSE]],
     frames |-> [path \in {"f1"} |->
                    [hitboxes |-> [name \in {"h1", "h2"} |->
                        IF name = "h1"
                        THEN [position |-> <<0, 0>>, size |-> <<2, 2>>]
                        ELSE [position |-> <<4, 0>>, size |-> <<4, 2>>]]]]]

UpdateCommands ==
    {"UpdateHitboxDrag", "UpdateHitboxScale", "UpdateKeyframeOffsetDrag"}

\* driver.chain: a Begin succeeded and only updates were processed since;
\* driver.begun: the document as that Begin left it; driver.updates: how many
\* of them succeeded (counted up to 2); driver.moved: the update before the
\* last one had changed the sheet; driver.replaced: the last one changed what
\* it found; driver.command: the last update, with its arguments
InitGesture ==
    /\ doc = OpenDocument("p1", GestureSheet)
    /\ last = NoStep
    /\ driver = [begun |-> doc, chain |-> FALSE, command |-> [type |-> "None"],
                 moved |-> FALSE, replaced |-> FALSE, updates |-> 0]
    /\ app = NoApp

\* the caller's records after a command that gave result
GestureRecord(command, result) ==
    /\ result.d.next_version <= MaxVersion
    /\ doc' = result.d
    /\ last' = StepRecord(command.type, result, doc)
    /\ driver' =
          IF result.ok /\ command.type \in {"BeginHitboxDrag", "BeginHitboxScale",
                                             "BeginKeyframeOffsetDrag"}
          THEN [begun |-> result.d, chain |-> TRUE, command |-> command,
                moved |-> FALSE, replaced |-> FALSE, updates |-> 0]
          ELSE IF driver.chain /\ command.type \in UpdateCommands
          THEN IF result.ok
               THEN [driver EXCEPT !.command = command,
                                   !.moved = doc.sheet /= driver.begun.sheet,
                                   !.replaced = result.d.sheet /= doc.sheet,
                                   !.updates = Min(@ + 1, 2)]
               ELSE [driver EXCEPT !.command = command]
          ELSE [begun |-> result.d, chain |-> FALSE, command |-> [type |-> "None"],
                moved |-> FALSE, replaced |-> FALSE, updates |-> 0]
    /\ UNCHANGED app

GestureStep(command) == GestureRecord(command, process_command(doc, command))

\* commands other than updates and End commands are processed on the sheet
\* as it was opened, with no gesture active
AtRestAsOpened == doc.transient = NoTransient /\ doc.sheet = GestureSheet

NextGesture ==
    \/ /\ AtRestAsOpened
       /\ GestureStep([path |-> "f1", type |-> "EditFrame"])
    \/ /\ AtRestAsOpened
       /\ GestureStep([name |-> "a1", type |-> "EditAnimation"])
    \/ /\ AtRestAsOpened
       /\ GestureStep([type |-> "WorkbenchZoomIn"])
    \/ \E names \in {{"h1"}, {"h1", "h2"}} :
          /\ AtRestAsOpened
          /\ GestureStep([s |-> [last_name |-> "h1", names |-> names],
                          type |-> "SelectHitboxes"])
    \/ \E indexes \in {{0}, {0, 1}} :
          /\ AtRestAsOpened
          /\ GestureStep([s |-> [indexes |-> indexes, last_index |-> 0],
                          type |-> "SelectKeyframes"])
    \/ /\ AtRestAsOpened
       /\ GestureStep([type |-> "BeginHitboxDrag"])
    \/ \E delta \in {<<2, 1>>, <<-3, 4>>}, both_axis \in BOOLEAN :
          GestureStep([both_axis |-> both_axis, delta |-> delta,
                       type |-> "UpdateHitboxDrag"])
    \/ \E axis \in {"NW", "NE", "SW", "SE", "N", "W", "S", "E"} :
          /\ AtRestAsOpened
          /\ GestureStep([axis |-> axis, type |-> "BeginHitboxScale"])
    \/ \E delta \in {<<2, 1>>, <<-3, 4>>}, preserve_aspect_ratio \in BOOLEAN :
          GestureStep([delta |-> delta,
                       preserve_aspect_ratio |-> preserve_aspect_ratio,
                       type |-> "UpdateHitboxScale"])
    \/ /\ AtRestAsOpened
       /\ GestureStep([type |-> "BeginKeyframeOffsetDrag"])
    \/ \E delta \in {<<2, 1>>, <<-3, 4>>}, both_axis \in BOOLEAN :
          GestureStep([both_axis |-> both_axis, delta |-> delta,
                       type |-> "UpdateKeyframeOffsetDrag"])
    \/ \E type \in {"EndHitboxDrag", "EndHitboxScale", "EndKeyframeOffsetDrag"} :
          GestureStep([type |-> type])

SpecGesture == InitGesture /\ [][NextGesture]_vars

\* C32: for hitbox drag, hitbox scale and keyframe offset drag, the sheet
\* after Begin and the updates u1..uk is the sheet after Begin and uk alone,
\* and repeating the update leaves the sheet as it is.
C32_UpdatesRecomputeFromSnapshot ==
    [][(last'.cmd \in UpdateCommands /\ last'.ok /\ driver'.chain)
        => /\ doc'.sheet = process_command(driver'.begun, driver'.command).d.sheet
           /\ process_command(doc', driver'.command).d.sheet = doc'.sheet]_vars

\* a second scale update of two hitboxes has replaced what the first one did
C32_Witness ==
    /\ last.cmd = "UpdateHitboxScale" /\ last.ok
    /\ driver.chain /\ driver.updates = 2
    /\ doc.view.selection.names = {"h1", "h2"}
    /\ driver.moved /\ driver.replaced
    /\ doc.sheet /= driver.begun.sheet

-----------------------------------------------------------------------------
(* SpecSave: edits, undo, redo and saving.  Saving reads the sheet and its
   version from the document; MarkAsSaved then reports that version *)

\* driver.saved_sheet: the sheet that was current when the version now held
\* in disk_version was read, at first the sheet read from disk
InitSave ==
    /\ doc = OpenDocument("p1", DiskSheet)
    /\ last = NoStep
    /\ driver = [saved_sheet |-> DiskSheet]
    /\ app = NoApp

SaveStep(type, result, saved_sheet) ==
    /\ result.d.next_version <= MaxVersion
    /\ WithinCoords(result.d.sheet)
    /\ doc' = result.d
    /\ last' = StepRecord(type, result, doc)
    /\ driver' = [saved_sheet |-> saved_sheet]
    /\ UNCHANGED app

NextSave ==
    \/ \E command \in {[path |-> "f1", type |-> "EditFrame"],
                       [type |-> "WorkbenchZoomIn"],
                       [s |-> [last_name |-> "h1", names |-> {"h1"}],
                        type |-> "SelectHitboxes"]} :
          SaveStep(command.type, process_command(doc, command), driver.saved_sheet)
    \/ \E command \in {[path |-> "f2", type |-> "EndImport"],
                       [direction |-> <<1, 0>>, large |-> FALSE,
                        type |-> "NudgeSelection"]} :
          SaveStep(command.type, process_command(doc, command), driver.saved_sheet)
    \/ /\ doc.transient = NoTransient
       /\ SaveStep("MarkAsSaved",
                   process_command(doc, [type |-> "MarkAsSaved",
                                         version |-> get_version(doc)]),
                   doc.sheet)
    \/ SaveStep("Undo", undo(doc), driver.saved_sheet)
    \/ SaveStep("Redo", redo(doc), driver.saved_sheet)

SpecSave == InitSave /\ [][NextSave]_vars

\* C33: in every gesture-free state in which is_saved() holds, the sheet is
\* the sheet that was current when the version held in disk_version was read
\* for saving.
C33_SavedVersionIdentifiesSheet ==
    (doc.transient = NoTransient /\ is_saved(doc)) => doc.sheet = driver.saved_sheet

-----------------------------------------------------------------------------
(* SpecSettle: commands processed after ticks have moved the live clock or a
   hitbox drag has moved the live sheet away from the current history entry *)

\* driver.view_diverged / sheet_diverged: before the step, the live view /
\* sheet differed from the current history entry's
InitSettle ==
    /\ doc = OpenDocument("p1", TimelineSheet)
    /\ last = NoStep
    /\ driver = [sheet_diverged |-> FALSE, view_diverged |-> FALSE]
    /\ app = NoApp

SettleStep(type, result) ==
    /\ result.d.next_version <= MaxVersion
    /\ WithinCoords(result.d.sheet)
    /\ doc' = result.d
    /\ last' = StepRecord(type, result, doc)
    /\ driver' = [sheet_diverged |-> doc.sheet /= CurrentEntry(doc).sheet,
                  view_diverged |-> doc.view /= CurrentEntry(doc).view]
    /\ UNCHANGED app

NextSettle ==
    \/ \E command \in {[name |-> "a1", type |-> "EditAnimation"],
                       [path |-> "f1", type |-> "EditFrame"],
                       [type |-> "TogglePlayback"],
                       [s |-> [last_name |-> "h1", names |-> {"h1"}],
                        type |-> "SelectHitboxes"]} :
          SettleStep(command.type, process_command(doc, command))
    \/ \E command \in {[type |-> "BeginHitboxDrag"],
                       [both_axis |-> TRUE, delta |-> <<2, 0>>,
                        type |-> "UpdateHitboxDrag"],
                       [type |-> "EndHitboxDrag"]} :
          SettleStep(command.type, process_command(doc, command))
    \/ /\ doc.view.timeline_clock = 0
       /\ SettleStep("Tick", Ok(tick(doc, 100)))
    \/ SettleStep("Undo", undo(doc))

SpecSettle == InitSettle /\ [][NextSettle]_vars

\* C34: right after a successful command that leaves no gesture active, the
\* sheet and the view are those of the current history entry, whatever ticks
\* and gesture updates did before the command.
C34_LiveStateIsCurrentEntry ==
    [][(/\ last'.ok
        /\ last'.cmd \notin {"Tick", "Undo", "Redo"}
        /\ doc'.transient = NoTransient)
        => /\ doc'.sheet = CurrentEntry(doc').sheet
           /\ doc'.view = CurrentEntry(doc').view]_vars

\* EndHitboxDrag was processed when a tick had moved the clock and the drag
\* had moved the hitbox
C34_Witness ==
    /\ last.cmd = "EndHitboxDrag" /\ last.ok
    /\ driver.sheet_diverged /\ driver.view_diverged
    /\ doc.transient = NoTransient
    /\ doc.view.timeline_clock > 0
    /\ doc.sheet.frames["f1"].hitboxes["h1"].position = <<2, 0>>

-----------------------------------------------------------------------------
(* View-only commands and the redo entries, checked under SpecRecord *)

\* the step processed, with no gesture active before or after it, a command
\* that changed the view and left the sheet alone
ChangedOnlyView ==
    /\ RecordedAtRest
    /\ doc.transient = NoTransient
    /\ doc'.sheet = doc.sheet
    /\ doc'.view /= doc.view

\* every entry above the cursor before the step is still there, above the
\* cursor and with the same sheet
RedoEntriesKept ==
    \A k \in (doc.history_index + 2)..Len(doc.history) :
        /\ k <= Len(doc'.history)
        /\ k > doc'.history_index + 1
        /\ doc'.history[k].sheet = doc.history[k].sheet

\* C35 as stated: a command that changes only the view never removes history
\* entries; every redo entry available before it is available after it, with
\* the same sheet.
C35_Original ==
    [][ChangedOnlyView => RedoEntriesKept]_vars

\* C35 amended: that holds when the current entry is itself a view-only entry
\* (history_index > 0 and the entry below it holds the same sheet); otherwise
\* the command pushes a new entry and every redo entry is removed.
C35_ViewOnlyKeepsRedoWhenMerged ==
    [][ChangedOnlyView
        => IF Mergeable(doc)
           THEN /\ RedoEntriesKept
                /\ Len(doc'.history) = Len(doc.history)
                /\ doc'.history_index = doc.history_index
           ELSE /\ doc'.history_index = doc.history_index + 1
                /\ Len(doc'.history) = doc.history_index + 2
                /\ CurrentEntry(doc').last_command = last'.cmd]_vars

\* a hitbox was selected on a view-only entry while the undone import was
\* above the cursor, and the import can still be redone
C35_Witness ==
    /\ last.cmd = "SelectHitboxes" /\ last.ok
    /\ driver.mergeable
    /\ driver.tail = 1
    /\ doc.history_index = Len(doc.history) - 2
    /\ has_frame(doc.history[Len(doc.history)].sheet, "f2")
    /\ ~has_frame(doc.sheet, "f2")
    /\ has_frame(redo(doc).d.sheet, "f2")

-----------------------------------------------------------------------------
(* SpecClose: the close commands, saving, edits, undo, redo and ticks *)

\* driver.without_saving: close_state was last set by CloseWithoutSaving
InitClose ==
    /\ doc = OpenDocument("p1", DiskSheet)
    /\ last = NoStep
    /\ driver = [without_saving |-> FALSE]
    /\ app = NoApp

CloseStep(type, result) ==
    /\ result.d.next_version <= MaxVersion
    /\ doc' = result.d
    /\ last' = StepRecord(type, result, doc)
    /\ driver' = [without_saving |->
                    IF type = "CloseWithoutSaving" THEN result.ok
                    ELSE /\ driver.without_saving
                         /\ result.d.persistent.close_state
                                = doc.persistent.close_state]
    /\ UNCHANGED app

NextClose ==
    \/ \E type \in {"Close", "CloseAfterSaving", "CloseWithoutSaving", "CancelClose"} :
          CloseStep(type, process_command(doc, [type |-> type]))
    \/ CloseStep("MarkAsSaved",
                 process_command(doc, [type |-> "MarkAsSaved",
                                       version |-> get_version(doc)]))
    \/ \E command \in {[path |-> "f2", type |-> "EndImport"],
                       [path |-> "f1", type |-> "EditFrame"],
                       [type |-> "WorkbenchZoomIn"]} :
          CloseStep(command.type, process_command(doc, command))
    \/ CloseStep("Undo", undo(doc))
    \/ CloseStep("Redo", redo(doc))
    \/ CloseStep("Tick", Ok(tick(doc, 1)))

SpecClose == InitClose /\ [][NextClose]_vars

\* C36: close_state is Allowed only if is_saved() holds or CloseWithoutSaving
\* set it; Close sets Allowed for a saved document and Requested otherwise,
\* and changes nothing when a close state is set; a tick turns Saving into
\* Allowed only when is_saved() holds; CancelClose resets the state to None.
C36_CloseStateSafety ==
    /\ [](doc.persistent.close_state = "Allowed"
            => (is_saved(doc) \/ driver.without_saving))
    /\ [][/\ (last'.cmd = "Close" /\ last'.ok)
             => doc'.persistent.close_state =
                    IF doc.persistent.close_state /= "None"
                    THEN doc.persistent.close_state
                    ELSE IF is_saved(doc) THEN "Allowed" ELSE "Requested"
          /\ last'.cmd = "Tick"
             => doc'.persistent.close_state =
                    IF doc.persistent.close_state = "Saving" /\ is_saved(doc)
                    THEN "Allowed"
                    ELSE doc.persistent.close_state
          /\ (last'.cmd = "CancelClose" /\ last'.ok)
             => doc'.persistent.close_state = "None"]_vars

-----------------------------------------------------------------------------
(* SpecConsistency: the commands that choose the workbench item and the
   selection, and the deletion of the selection, on a document opened from
   AnimatedSheet *)

NextConsistency ==
    \/ PlayStep([path |-> "f1", type |-> "EditFrame"])
    \/ PlayStep([name |-> "a1", type |-> "EditAnimation"])
    \/ PlayStep([type |-> "SelectFrames",
                 s |-> [last_name |-> "f1", names |-> {"f1"}]])
    \/ PlayStep([type |-> "SelectAnimations",
                 s |-> [last_name |-> "a1", names |-> {"a1"}]])
    \/ PlayStep([type |-> "SelectHitboxes",
                 s |-> [last_name |-> "h1", names |-> {"h1"}]])
    \/ PlayStep([type |-> "SelectKeyframes",
                 s |-> [indexes |-> {1}, last_index |-> 1]])
    \/ \E order \in IterationOrders(doc.view.selection.indexes) :
          PlayStep([type |-> "DeleteSelection", order |-> order])
    \/ LET result == undo(doc) IN
       /\ doc' = result.d
       /\ last' = StepRecord("Undo", result, doc)
       /\ UNCHANGED <<driver, app>>
    \/ LET result == redo(doc) IN
       /\ doc' = result.d
       /\ last' = StepRecord("Redo", result, doc)
       /\ UNCHANGED <<driver, app>>

SpecConsistency == InitPlay /\ [][NextConsistency]_vars

\* C37: in every state with no gesture in progress, the workbench item, when
\* there is one, names a frame or an animation of the current sheet.
C37_WorkbenchItemExists ==
    doc.transient = NoTransient =>
        /\ doc.view.workbench_item.kind = "Frame"
              => has_frame(doc.sheet, doc.view.workbench_item.name)
        /\ doc.view.workbench_item.kind = "Animation"
              => has_animation(doc.sheet, doc.view.workbench_item.name)


\* the hitboxes of the frame on the workbench, none when no frame of the
\* sheet is there
WorkbenchHitboxes(d) ==
    IF workbench_frame_error(d) = ""
    THEN DOMAIN d.sheet.frames[d.view.workbench_item.name].hitboxes
    ELSE {}

\* the keyframe indexes of the animation on the workbench
WorkbenchKeyframes(d) ==
    IF workbench_animation_error(d) = ""
    THEN 0..(get_num_frames(d.sheet.animations[d.view.workbench_item.name]) - 1)
    ELSE {}

\* C38: in every state with no gesture in progress, a Frame or Animation
\* selection names only frames or animations of the sheet, a Hitbox selection
\* names only hitboxes of the frame on the workbench, and a Keyframe
\* selection names only keyframe indexes of the animation on the workbench.
C38_SelectionIsConsistent ==
    doc.transient = NoTransient =>
        LET selection == doc.view.selection IN
        /\ selection.kind = "Frame" => selection.names \subseteq DOMAIN doc.sheet.frames
        /\ selection.kind = "Animation"
              => selection.names \subseteq DOMAIN doc.sheet.animations
        /\ selection.kind = "Hitbox"
              => /\ doc.view.workbench_item.kind = "Frame"
                 /\ selection.names \subseteq WorkbenchHitboxes(doc)
        /\ selection.kind = "Keyframe"
              => /\ doc.view.workbench_item.kind = "Animation"
                 /\ selection.indexes \subseteq WorkbenchKeyframes(doc)


-----------------------------------------------------------------------------
(* SpecArrange: the deletion and the reordering of selected keyframes, on an
   animation whose keyframes all differ *)

\* the sheet file: the four keyframes of a1 are told apart by their durations
ArrangeSheet ==
    [animations |->
        [name \in {"a1"} |->
            [frames |-> <<Keyframe("f1", 10), Keyframe("f1", 20),
                          Keyframe("f1", 30), Keyframe("f1", 40)>>,
             is_looping |-> FALSE]],
     frames |-> [path \in {"f1"} |-> [hitboxes |-> <<>>]]]

\* the document after EditAnimation and SelectKeyframes
Arranged(indexes, last_index) ==
    LET edited == process_command(OpenDocument("p1", ArrangeSheet),
                                  [name |-> "a1", type |-> "EditAnimation"]).d
    IN process_command(edited,
                       [type |-> "SelectKeyframes",
                        s |-> [indexes |-> indexes, last_index |-> last_index]]).d

\* every non-empty set of keyframe indexes of a1 is selected, with each of
\* its members as the last touched one
InitArrange ==
    /\ \E indexes \in (SUBSET (0..3)) \ {{}} : \E last_index \in indexes :
          doc = Arranged(indexes, last_index)
    /\ last = [NoStep EXCEPT !.cmd = "None"] @@ [command |-> [type |-> "None"]]
    /\ driver = NoDriver
    /\ app = NoApp

\* new_index 5 is past the end
NextArrange ==
    \/ \E order \in IterationOrders(doc.view.selection.indexes) :
          SelectStep([type |-> "DeleteSelection", order |-> order])
    \/ \E index \in 0..5 :
          SelectStep([index |-> index, type |-> "ReorderKeyframes"])

SpecArrange == InitArrange /\ [][NextArrange]_vars

\* the keyframes of the animation on the workbench
WorkbenchFrames(d) == d.sheet.animations[d.view.workbench_item.name].frames

\* C39: a successful DeleteSelection with a Keyframe selection leaves, of the
\* keyframes of the workbench animation, exactly those whose index before the
\* command was not selected, in their order, and leaves no selection.
C39_DeletesSelectedKeyframes ==
    [][(/\ last'.cmd = "DeleteSelection" /\ last'.ok
        /\ doc.view.selection.kind = "Keyframe"
        /\ workbench_animation_error(doc) = "")
        => /\ WorkbenchFrames(doc') =
                FramesAt(WorkbenchFrames(doc),
                         (1..Len(WorkbenchFrames(doc)))
                            \ {i + 1 : i \in doc.view.selection.indexes})
           /\ doc'.view.selection = NoSelection]_vars


\* where a keyframe is in a sequence of keyframes that all differ
PositionOf(frames, keyframe) == CHOOSE p \in DOMAIN frames : frames[p] = keyframe

\* C40: a successful ReorderKeyframes(new_index) keeps every keyframe of the
\* workbench animation and adds none; the selected keyframes end up at the
\* positions insert_index .. insert_index + k - 1, where insert_index is
\* new_index minus the number of selected indexes below new_index; selected
\* keyframes keep their order among themselves and so do the unselected
\* ones; the selection is that range of indexes and the clock is the start
\* time of the keyframe at insert_index.
C40_ReorderIsPermutation ==
    [][(last'.cmd = "ReorderKeyframes" /\ last'.ok)
        => LET before == WorkbenchFrames(doc)
               after == WorkbenchFrames(doc')
               selected == {i + 1 : i \in doc.view.selection.indexes}
               k == Cardinality(selected)
               new_index == last'.command.index
               insert_index ==
                   new_index - Cardinality({i \in doc.view.selection.indexes :
                                                i < new_index})
           IN /\ Len(after) = Len(before)
              /\ \A p \in DOMAIN before : \E q \in DOMAIN after : after[q] = before[p]
              /\ {PositionOf(after, before[p]) : p \in selected} =
                    (insert_index + 1)..(insert_index + k)
              /\ \A p, q \in DOMAIN before :
                    (p < q /\ (p \in selected <=> q \in selected))
                        => PositionOf(after, before[p]) < PositionOf(after, before[q])
              /\ doc'.view.selection.kind = "Keyframe"
              /\ doc'.view.selection.indexes = insert_index..(insert_index + k - 1)
              /\ doc'.view.timeline_clock = SumDurations(after, insert_index)]_vars

\* the first and the third keyframe were moved to the end: they are the last
\* two, selected, and the clock is at the start of the first of them
C40_Witness ==
    /\ last.cmd = "ReorderKeyframes" /\ last.ok /\ last.command.index = 4
    /\ WorkbenchFrames(doc) = <<Keyframe("f1", 20), Keyframe("f1", 40),
                                Keyframe("f1", 10), Keyframe("f1", 30)>>
    /\ doc.view.selection.indexes = {2, 3}
    /\ doc.view.timeline_clock = 60

====
